---- MODULE Spec2Model ----
(***************************************************************************)
(* Model of the ODBC marshalling core of duckdb-nanodbc-extension.        *)
(*                                                                         *)
(* The repository carries three variants of the Statement Cursor:         *)
(*   "OdbcStatement"    src/src/odbc_statement.cpp (nanodbc based)         *)
(*   "NanodbcStatement" src/src/nanodbc_stmt.cpp   (nanodbc based)         *)
(*   "ODBCStatement"    src/src/odbc_stmt.cpp      (raw ODBC C API)        *)
(* and two variants of the scanner:                                        *)
(*   "ScanOdbcSource"   src/src/odbc_scanner.cpp    (uses OdbcStatement)   *)
(*   "ODBCScan"         src/src/nanodbc_scanner.cpp (uses NanodbcStatement)*)
(*                                                                         *)
(* The specifications share the variables:                                 *)
(*   SpecCursor   the Statement Cursor driven by arbitrary calls           *)
(*   SpecScan     bind / local-state init / fetch calls of one invocation  *)
(*   SpecVar      the variable-length read loop ODBCUtils::ReadVarColumn   *)
(*   SpecAttach   Attach and the views it registers in the host engine     *)
(*   SpecType     one remote column: type mapping, decimal cells, checks   *)
(*   SpecCells    the row loop of the scanners, cell by cell               *)
(*   SpecLocator  the locator of an invocation, from bind to the calls     *)
(*   SpecDescribe two bound scans and their textual descriptions           *)
(*   SpecConnect  one call of a connect function                           *)
(*   SpecNative   the native operations one wrapper call issues            *)
(*   SpecOwner    Connectivity Handle wrappers moved, closed, destroyed     *)
(*   SpecContexts the execution contexts the host runs for one scan        *)
(*   SpecViews    Attach over a catalog whose view probes may fail         *)
(*   SpecFinish   the finished flag of Exec and Attach                     *)
(*   SpecVarLive  SpecVar with a fair read loop                            *)
(***************************************************************************)
EXTENDS Integers, Sequences, FiniteSets, TLC

\* ------------------------------------------------------------------ bounds
\* largest remote result set
MaxRows == 5
\* calls made on one cursor in SpecCursor
MaxCalls == 5
\* fetch calls of one bound invocation in SpecScan
MaxFetch == 4
\* rows per columnar batch (DuckDB's STANDARD_VECTOR_SIZE, 2048, scaled down)
STANDARD_VECTOR_SIZE == 2
\* remote values are up to MaxChunks initial buffers long (give or take 2 bytes)
MaxChunks == 2

VARIABLES
    \* ---- the Statement Cursor and its native statement
    variant,     \* which Statement Cursor class is in use
    nrows,       \* rows of the remote result set
    lenient,     \* driver lets SQLExecute run on a statement whose cursor is open
    cur,         \* the cursor object and the native statement behind it
    ret,         \* the last call made: operation, outcome, injected native failure
    nExec,       \* native executions of the statement that succeeded
    nFree,       \* releases of the native statement handle
    exhausted,   \* Step() returned false at the end of the result set, no Reset/Close since
    calls,       \* calls made so far
    \* ---- one bound invocation of a table function
    scanner,     \* which scanner file serves the invocation
    entry,       \* "SCAN", "QUERY" or "EXEC"
    ncols,       \* result columns of the remote statement or table
    colName,     \* name of the (first) remote result column
    phase,       \* "unbound", "bound", "ready", "failed"
    column_names,\* schema names fixed at bind time
    column_types,\* schema types fixed at bind time
    hasStmt,     \* local state holds a prepared statement
    done,        \* OdbcLocalScanState::done / ODBCLocalState::done
    finished,    \* OdbcExecFunctionData::finished
    out,         \* the columnar batch handed back by the last fetch call
    emitted,     \* concatenation of the data rows of all batches so far
    nFetch,      \* fetch calls made
    nSteps,      \* Step() calls made by the last fetch call
    sawEnd,      \* the last fetch call got false from Step()
    remoteExec,  \* executions of the bound statement on the remote source
    connects,    \* native connects attempted
    \* ---- one call of ReadVarColumn and the driver's side of SQLGetData
    ctype,       \* C type asked for: "SQL_C_CHAR", "SQL_C_WCHAR" or "SQL_C_BINARY"
    valLen,      \* length in bytes of the remote value
    valNull,     \* the remote value is NULL
    drvOff,      \* bytes of the value the driver has handed out so far
    rvpc,        \* "call" (not started), "loop", "done" (returned), "error" (raised)
    bufferSize,  \* size_t bufferSize
    totalRead,   \* size_t totalRead
    result,      \* std::vector<char>& result
    isNull,      \* bool& isNull
    sqlret,      \* SQLRETURN of the last SQLGetData
    offered,     \* availableSpace passed to the last SQLGetData
    reads        \* SQLGetData calls made

cursorVars == <<variant, nrows, lenient, cur, ret, nExec, nFree, exhausted, calls>>
scanVars == <<scanner, entry, ncols, colName, phase, column_names, column_types,
              hasStmt, done, finished, out, emitted, nFetch, nSteps, sawEnd,
              remoteExec, connects>>
readVars == <<ctype, valLen, valNull, drvOff, rvpc, bufferSize, totalRead, result,
              isNull, sqlret, offered, reads>>

VARIABLES
    \* ---- one bound invocation of Attach and the host catalog it writes
    attacher,      \* "AttachOdbcDatabase" (odbc_scanner.cpp) or "AttachFunction" (nanodbc_scanner.cpp)
    remoteTables,  \* table names the remote catalog lists, in catalog order
    remoteViews,   \* view names the remote catalog lists, in catalog order
    attach_data,   \* OdbcAttachFunctionData / AttachFunctionData
    hostViews,     \* views registered in the host engine
    attachOut,     \* the chunk handed back by the last attach call
    attachPhase,   \* "unbound", "ready" or "failed" (a call raised)
    nAttach,       \* attach calls made
    nCreateView,   \* CreateView calls that registered a view
    attachInputs,  \* positional inputs and named parameters of the attach call
    attachConnects \* native connects attempted by attach calls

attachVars == <<attacher, remoteTables, remoteViews, attach_data, hostViews, attachOut,
                attachPhase, nAttach, nCreateView, attachInputs, attachConnects>>

VARIABLES
    \* ---- one remote column: its metadata, the bound type, one cell of it
    odbc_type,      \* SQL type code the driver reports for the column
    column_size,    \* SQLULEN column_size of the driver's metadata
    decimal_digits, \* SQLSMALLINT decimal_digits of the driver's metadata
    hasSqlBoolean,  \* the ODBC headers of the build define SQL_BOOLEAN
    all_varchar,    \* the all_varchar option of the bound call
    declared,       \* the LogicalType the binder gave the column
    decimal_str,    \* the remote value of the cell, as the driver renders it
    cell,           \* the cell of the output vector after the row was materialized
    tpc,            \* "bind" (untyped), "bound", "cell" (materialized), "raised", ...
    typeBinder,     \* "BindOdbcFunction" (odbc_scanner.cpp) or "ODBCBind" (nanodbc_scanner.cpp)
    typeEntry,      \* "SCAN" or "QUERY"
    column_count,    \* columns of the remote table or statement: 0, or 1 (the column above)
    return_types,   \* the schema the binder handed to the host
    checkCall,      \* the last type-consistency check made: arguments and outcome
    nGetName        \* GetName() calls made on the statement by type-consistency checks

\* what the column and the call are, fixed before the bind
columnVars == <<odbc_type, column_size, decimal_digits, hasSqlBoolean, all_varchar,
                decimal_str, typeBinder, typeEntry, column_count>>
typeVars == <<columnVars, declared, cell, tpc, return_types, checkCall, nGetName>>

VARIABLES
    \* ---- the row loop of one scan: result-set cells in, batch cells out
    cellScanner,  \* "ScanOdbcSource" or "ODBCScan"
    vec_types,    \* type id of each output vector (output.data[col_idx].GetType().id())
    resultRows,   \* the result set: per row and column "NULL", "ok" or "bad" (see CellKinds)
    cellDone,     \* state.done
    scan_count,   \* state.scan_count: rows the cursor has made current so far
    output,       \* DataChunk &output after the last scan call
    cellpc        \* "idle", "emitted" (the call returned a batch) or "raised"

cellVars == <<cellScanner, vec_types, resultRows, cellDone, scan_count, output, cellpc>>

VARIABLES
    \* ---- one invocation of an entry point, from its locator to its calls
    locFile,      \* "odbc_scanner.cpp" or "nanodbc_scanner.cpp"
    locEntry,     \* "SCAN", "QUERY", "ATTACH" or "EXEC"
    locInputs,    \* positional inputs: connection info, username, password
    locParams,    \* the connection parameters the bind stored
    locPhase,     \* "unbound", "bound", "bind_error", "call_error"
    locError,     \* "none", "configuration" or "connection"
    locConnects,  \* native connects attempted
    locCalls,     \* fetch / execute calls of the invocation made
    locFinished   \* the finished flag of Attach and Exec

locVars == <<locFile, locEntry, locInputs, locParams, locPhase, locError, locConnects,
             locCalls, locFinished>>

VARIABLES
    \* ---- two bound scans side by side and their textual descriptions
    descInputs,   \* per scan: table name, connection info, username, password
    descData,     \* per scan: the ODBCBindData its bind stored
    descText,     \* per scan: the map ODBCToString returned, in insertion order
    descPc        \* per scan: "unbound", "bound", "failed" or "described"

descVars == <<descInputs, descData, descText, descPc>>

VARIABLES
    \* ---- one call of a connect function and the handle it returns
    opener,       \* which connect function is called
    connParams,   \* locator and the read_only option
    native,       \* what the driver manager answers to each native call
    handle,       \* the connection handle: open, access mode in force
    connOut,      \* "none" (not called), "open" (returned a handle) or "raised"
    connWarnings, \* warnings written to stderr
    nStatements   \* statements executed on the returned handle

connVars == <<opener, connParams, native, handle, connOut, connWarnings, nStatements>>

VARIABLES
    \* ---- the native operations one call of a wrapper function issues
    natWho,       \* the function called last
    natVariant,   \* the Statement Cursor class that is stepped
    natRows,      \* rows of the result set behind the cursor
    natCur,       \* the cursor
    natTrace,     \* native operations the last call issued, in order
    natOut,       \* "none", "ok" or "raised"
    natCalls      \* calls made

natVars == <<natWho, natVariant, natRows, natCur, natTrace, natOut, natCalls>>

VARIABLES
    \* ---- Connectivity Handle wrappers and the native connections they hold
    ownClass,     \* the wrapper class: "ODBCDB" or "NanodbcDB"
    wrappers,     \* per slot: alive, the connection held (0 = none), owner
    connected,    \* per native connection: still connected
    nDisc,        \* per native connection: native disconnects made
    nOpened,      \* native connections opened so far
    strayDisc     \* a wrapper that was not the owner has disconnected

ownVars == <<ownClass, wrappers, connected, nDisc, nOpened, strayDisc>>

VARIABLES
    \* ---- the execution contexts the host runs for one bound scan
    ctxScanner,   \* "ScanOdbcSource" or "ODBCScan"
    global_db,    \* the caller handed in a shared handle (handle 1)
    successBind,  \* the bind produced the single "Success" column
    gstate,       \* the global scan state: max_threads (0 = not created)
    ctxs,         \* per context: pc, handle used, statement, owns the handle
    nHandles,     \* handles in existence (ids 1..nHandles)
    nPrepared     \* statements prepared so far

ctxVars == <<ctxScanner, global_db, successBind, gstate, ctxs, nHandles, nPrepared>>

VARIABLES
    \* ---- the remote catalog behind GetViews
    catalogViews,     \* names the "VIEW" probe lists
    catalogSysViews,  \* names the "SYSTEM VIEW" probe lists
    viewFailAfter,    \* rows the "VIEW" probe gives before it fails (-1: never)
    sysFailAfter,     \* the same for the "SYSTEM VIEW" probe
    gotViews          \* what GetViews returned to the last attach call

viewVars == <<catalogViews, catalogSysViews, viewFailAfter, sysFailAfter, gotViews>>

\* the groups of the specifications that follow SpecConnect
finalVars == <<natVars, ownVars, ctxVars, viewVars>>

\* the groups of the specifications that follow SpecType
laterVars == <<cellVars, locVars, descVars, connVars, finalVars>>

\* everything outside the cursor, scan and read groups
restVars == <<attachVars, typeVars, laterVars>>
vars == <<cursorVars, scanVars, readVars, restVars>>

\* the attach variables at rest
AttachIdle ==
    /\ attacher = "none" /\ remoteTables = <<>> /\ remoteViews = <<>>
    /\ attach_data = [dsn |-> <<>>, connection_string |-> <<>>, username |-> <<>>,
                      password |-> <<>>, overwrite |-> FALSE, finished |-> FALSE]
    /\ hostViews = {} /\ attachOut = [card |-> 0, data |-> <<>>]
    /\ attachPhase = "unbound" /\ nAttach = 0 /\ nCreateView = 0
    /\ attachInputs = [info |-> <<>>, overwrite |-> FALSE] /\ attachConnects = 0

\* the column variables at rest
TypeIdle ==
    /\ odbc_type = "SQL_VARCHAR" /\ column_size = 0 /\ decimal_digits = 0
    /\ hasSqlBoolean = FALSE /\ all_varchar = FALSE
    /\ declared = [id |-> "INVALID"] /\ decimal_str = <<>>
    /\ cell = [valid |-> TRUE, val |-> 0] /\ tpc = "bind"
    /\ typeBinder = "none" /\ typeEntry = "none" /\ column_count = 0
    /\ return_types = <<>> /\ nGetName = 0
    /\ checkCall = [fn |-> "none", null |-> FALSE, odbc_type |-> "none",
                    expected_type |-> "none", raised |-> FALSE]

\* the row-loop variables at rest
CellIdle ==
    /\ cellScanner = "none" /\ vec_types = <<>> /\ resultRows = <<>>
    /\ cellDone = FALSE /\ scan_count = 0
    /\ output = [card |-> 0, cols |-> <<>>] /\ cellpc = "idle"

\* the locator variables at rest
LocIdle ==
    /\ locFile = "none" /\ locEntry = "none"
    /\ locInputs = [info |-> <<>>, username |-> <<>>, password |-> <<>>]
    /\ locParams = [dsn |-> <<>>, connection_string |-> <<>>]
    /\ locPhase = "unbound" /\ locError = "none"
    /\ locConnects = 0 /\ locCalls = 0 /\ locFinished = FALSE

\* the description variables at rest
DescIdle ==
    /\ descInputs = <<>> /\ descData = <<>> /\ descText = <<>> /\ descPc = <<>>

\* the connect variables at rest
ConnIdle ==
    /\ opener = "none" /\ connParams = [info |-> <<>>, read_only |-> FALSE]
    /\ native = [setup |-> "SQL_SUCCESS", timeout |-> "SQL_SUCCESS",
                 access_mode |-> "SQL_SUCCESS", connect |-> "SQL_SUCCESS"]
    /\ handle = [open |-> FALSE, read_only |-> FALSE]
    /\ connOut = "none" /\ connWarnings = 0 /\ nStatements = 0

\* the native-operation variables at rest
NatIdle ==
    /\ natWho = "none" /\ natVariant = "none" /\ natRows = 0
    /\ natCur = [conn |-> FALSE, hstmt |-> FALSE, executed |-> FALSE, hasResult |-> FALSE,
                 cursorOpen |-> FALSE, pos |-> 0]
    /\ natTrace = <<>> /\ natOut = "none" /\ natCalls = 0

\* the wrapper variables at rest
OwnIdle ==
    /\ ownClass = "none" /\ wrappers = <<>> /\ connected = <<>> /\ nDisc = <<>>
    /\ nOpened = 0 /\ strayDisc = FALSE

\* the execution-context variables at rest
CtxIdle ==
    /\ ctxScanner = "none" /\ global_db = FALSE /\ successBind = FALSE
    /\ gstate = [max_threads |-> 0] /\ ctxs = <<>>
    /\ nHandles = 0 /\ nPrepared = 0

\* the catalog variables at rest
ViewIdle ==
    /\ catalogViews = <<>> /\ catalogSysViews = <<>>
    /\ viewFailAfter = -1 /\ sysFailAfter = -1
    /\ gotViews = <<>>

FinalIdle == NatIdle /\ OwnIdle /\ CtxIdle /\ ViewIdle

LaterIdle == CellIdle /\ LocIdle /\ DescIdle /\ ConnIdle /\ FinalIdle

RestIdle == AttachIdle /\ TypeIdle /\ LaterIdle

\* the groups each of the later specifications leaves alone
othersAttach == <<cursorVars, scanVars, readVars, typeVars, laterVars>>
othersType == <<cursorVars, scanVars, readVars, attachVars, laterVars>>
othersCell == <<cursorVars, scanVars, readVars, attachVars, typeVars, locVars, descVars,
                connVars, finalVars>>
othersLoc == <<cursorVars, scanVars, readVars, attachVars, typeVars, cellVars, descVars,
               connVars, finalVars>>
othersDesc == <<cursorVars, scanVars, readVars, attachVars, typeVars, cellVars, locVars,
                connVars, finalVars>>
othersConn == <<cursorVars, scanVars, readVars, attachVars, typeVars, cellVars, locVars,
                descVars, finalVars>>
\* everything before the final groups
earlierVars == <<cursorVars, scanVars, readVars, attachVars, typeVars, cellVars, locVars,
                 descVars, connVars>>
othersNat == <<earlierVars, ownVars, ctxVars, viewVars>>
othersOwn == <<earlierVars, natVars, ctxVars, viewVars>>
othersCtx == <<earlierVars, natVars, ownVars, viewVars>>
othersView == <<cursorVars, scanVars, readVars, typeVars, cellVars, locVars, descVars,
                connVars, natVars, ownVars, ctxVars>>

Variants == {"OdbcStatement", "NanodbcStatement", "ODBCStatement"}
NanodbcBased == {"OdbcStatement", "NanodbcStatement"}
\* native failures a call can meet
Fails == {"none", "execute", "fetch"}

\* ------------------------------------------------------- the native layer
\* A statement object: conn = the connection behind it is connected (hdbc set),
\* hstmt = a native statement handle is allocated, cursorOpen/pos = the native
\* cursor (pos = number of the current row, 0 before the first row,
\* nrows + 1 after the last).
DefaultStatement ==
    [conn |-> FALSE, hstmt |-> FALSE, executed |-> FALSE, hasResult |-> FALSE,
     cursorOpen |-> FALSE, pos |-> 0]

\* OdbcStatement(conn, query): statement prepared, nothing executed
PreparedStatement ==
    [conn |-> TRUE, hstmt |-> TRUE, executed |-> FALSE, hasResult |-> FALSE,
     cursorOpen |-> FALSE, pos |-> 0]

\* stmt.execute() / SQLExecute.  nanodbc closes an open cursor before it
\* executes; the raw variant calls SQLExecute as is, which a conforming driver
\* manager rejects (SQLSTATE 24000) while a cursor is open.
NativeExecuteOk(v, c, len, fail) ==
    /\ c.hstmt
    /\ fail # "execute"
    /\ (v = "ODBCStatement" /\ c.cursorOpen) => len

AfterExecute(c) == [c EXCEPT !.cursorOpen = TRUE, !.pos = 0]

\* result.next() / SQLFetch: advance one row, false (SQL_NO_DATA) at the end
NativeFetch(c, n, fail) ==
    IF fail = "fetch" THEN [c |-> c, val |-> "error", ex |-> 0]
    ELSE IF c.pos < n THEN [c |-> [c EXCEPT !.pos = c.pos + 1], val |-> "true", ex |-> 0]
    ELSE [c |-> [c EXCEPT !.pos = n + 1], val |-> "false", ex |-> 0]

\* result.position(): number of the current row, 0 when there is none
Position(c, n) == IF c.pos >= 1 /\ c.pos <= n THEN c.pos ELSE 0

\* stmt.close(): SQLCancel, then free the handle; throws when SQLCancel fails
\* and then leaves the statement as it was.  The connection is kept.
NativeCloseThrows(c, closeFails) == c.hstmt /\ c.conn /\ closeFails

AfterNativeClose(c) == [c EXCEPT !.hstmt = FALSE, !.cursorOpen = FALSE, !.pos = 0]

\* ------------------------------------------------------------ IsOpen
IsOpen(v, c) == IF v = "ODBCStatement" THEN c.hstmt ELSE c.conn

\* ------------------------------------------------------------ Step
WithExec(r) == [r EXCEPT !.ex = 1]

OdbcStatement_Step(c, n, len, fail) ==
    IF ~IsOpen("OdbcStatement", c) THEN [c |-> c, val |-> "false", ex |-> 0]
    ELSE IF ~c.executed
    THEN IF ~NativeExecuteOk("OdbcStatement", c, len, fail)
         THEN [c |-> c, val |-> "error", ex |-> 0]
         ELSE WithExec(NativeFetch([AfterExecute(c) EXCEPT !.executed = TRUE,
                                                           !.hasResult = TRUE], n, fail))
    ELSE NativeFetch(c, n, fail)

NanodbcStatement_Step(c, n, len, fail) ==
    IF ~IsOpen("NanodbcStatement", c) THEN [c |-> c, val |-> "false", ex |-> 0]
    ELSE IF ~c.executed
    THEN IF ~NativeExecuteOk("NanodbcStatement", c, len, fail)
         THEN [c |-> c, val |-> "error", ex |-> 0]
         ELSE LET c1 == [AfterExecute(c) EXCEPT !.executed = TRUE]
              IN  [c |-> c1,
                   val |-> IF Position(c1, n) > 0 THEN "true" ELSE "false",
                   ex |-> 1]
    ELSE NativeFetch(c, n, fail)

ODBCStatement_Step(c, n, len, fail) ==
    IF ~c.conn \/ ~c.hstmt THEN [c |-> c, val |-> "false", ex |-> 0]
    ELSE IF ~NativeExecuteOk("ODBCStatement", c, len, fail)
    THEN [c |-> c, val |-> "error", ex |-> 0]
    ELSE WithExec(NativeFetch(AfterExecute(c), n, fail))

StepOf(v, c, n, len, fail) ==
    CASE v = "OdbcStatement" -> OdbcStatement_Step(c, n, len, fail)
      [] v = "NanodbcStatement" -> NanodbcStatement_Step(c, n, len, fail)
      [] v = "ODBCStatement" -> ODBCStatement_Step(c, n, len, fail)

\* ------------------------------------------------------------ Reset / Close
\* result of a release: the cursor, "ok" or "error", handles freed
OdbcStatement_Reset(v, c, closeFails) ==
    IF ~IsOpen(v, c) THEN [c |-> c, val |-> "ok", freed |-> 0]
    ELSE IF NativeCloseThrows(c, closeFails)
    THEN [c |-> c, val |-> "error", freed |-> 0]
    ELSE [c |-> [AfterNativeClose(c) EXCEPT !.hasResult = FALSE, !.executed = FALSE],
          val |-> "ok", freed |-> IF c.hstmt THEN 1 ELSE 0]

OdbcStatement_Close(v, c, closeFails) ==
    IF ~IsOpen(v, c) THEN [c |-> c, val |-> "ok", freed |-> 0]
    ELSE IF NativeCloseThrows(c, closeFails)
    THEN [c |-> c, val |-> "ok", freed |-> 0]
    ELSE [c |-> [AfterNativeClose(c) EXCEPT !.hasResult = FALSE, !.executed = FALSE],
          val |-> "ok", freed |-> IF c.hstmt THEN 1 ELSE 0]

\* SQLFreeStmt(hstmt, SQL_CLOSE): closes the cursor, keeps the handle
ODBCStatement_Reset(c) ==
    IF c.hstmt
    THEN [c |-> [c EXCEPT !.cursorOpen = FALSE, !.pos = 0], val |-> "ok", freed |-> 0]
    ELSE [c |-> c, val |-> "ok", freed |-> 0]

ODBCStatement_Close(c) ==
    [c |-> [AfterNativeClose(c) EXCEPT !.conn = FALSE],
     val |-> "ok", freed |-> IF c.hstmt THEN 1 ELSE 0]

ResetOf(v, c, closeFails) ==
    IF v = "ODBCStatement" THEN ODBCStatement_Reset(c)
    ELSE OdbcStatement_Reset(v, c, closeFails)

CloseOf(v, c, closeFails) ==
    IF v = "ODBCStatement" THEN ODBCStatement_Close(c)
    ELSE OdbcStatement_Close(v, c, closeFails)

\* ------------------------------------------------------------ GetColumnCount
\* the nanodbc variants execute first when nothing was executed yet; the raw
\* variant asks SQLNumResultCols of the prepared statement
GetColumnCountOf(v, c, len, fail) ==
    IF ~IsOpen(v, c) THEN [c |-> c, val |-> "error", ex |-> 0]
    ELSE IF v = "ODBCStatement" THEN [c |-> c, val |-> "ok", ex |-> 0]
    ELSE IF c.executed THEN [c |-> c, val |-> "ok", ex |-> 0]
    ELSE IF ~NativeExecuteOk(v, c, len, fail) THEN [c |-> c, val |-> "error", ex |-> 0]
    ELSE [c |-> [AfterExecute(c) EXCEPT !.executed = TRUE, !.hasResult = TRUE],
          val |-> "ok", ex |-> 1]

\* ------------------------------------------------------------ GetName
\* same shape as GetColumnCount: result.column_name(colIdx) after an execute
\* on demand in the nanodbc variants, SQLColAttribute in the raw variant
GetNameOf(v, c, len, fail) ==
    IF ~IsOpen(v, c) THEN [c |-> c, val |-> "error", ex |-> 0]
    ELSE IF v = "ODBCStatement" THEN [c |-> c, val |-> "ok", ex |-> 0]
    ELSE IF c.executed THEN [c |-> c, val |-> "ok", ex |-> 0]
    ELSE IF ~NativeExecuteOk(v, c, len, fail) THEN [c |-> c, val |-> "error", ex |-> 0]
    ELSE [c |-> [AfterExecute(c) EXCEPT !.executed = TRUE, !.hasResult = TRUE],
          val |-> "ok", ex |-> 1]

\* ------------------------------------------------------------ GetOdbcType
\* GetColumnMetadata after an execute on demand in the nanodbc variants,
\* SQLDescribeCol in the raw variant
GetOdbcTypeOf(v, c, len, fail) ==
    IF ~IsOpen(v, c) THEN [c |-> c, val |-> "error", ex |-> 0]
    ELSE IF v = "ODBCStatement" THEN [c |-> c, val |-> "ok", ex |-> 0]
    ELSE IF c.executed THEN [c |-> c, val |-> "ok", ex |-> 0]
    ELSE IF ~NativeExecuteOk(v, c, len, fail) THEN [c |-> c, val |-> "error", ex |-> 0]
    ELSE [c |-> [AfterExecute(c) EXCEPT !.executed = TRUE, !.hasResult = TRUE],
          val |-> "ok", ex |-> 1]

\* =====================================================================
\* SpecCursor: one Statement Cursor, called in any order
\* =====================================================================
NoCall == [op |-> "none", val |-> "none", fail |-> "none", first |-> FALSE]

\* the scan variables at rest
ScanIdle ==
    /\ scanner = "none" /\ entry = "none" /\ ncols = 1 /\ colName = "c0"
    /\ phase = "unbound" /\ column_names = <<>> /\ column_types = <<>>
    /\ hasStmt = FALSE /\ done = FALSE /\ finished = FALSE
    /\ out = [card |-> 0, data |-> <<>>] /\ emitted = <<>>
    /\ nFetch = 0 /\ nSteps = 0 /\ sawEnd = FALSE
    /\ remoteExec = 0 /\ connects = 0

\* the variable-length read variables at rest
ReadIdle ==
    /\ ctype = "SQL_C_BINARY" /\ valLen = 0 /\ valNull = FALSE /\ drvOff = 0
    /\ rvpc = "call" /\ bufferSize = 0 /\ totalRead = 0 /\ result = <<>>
    /\ isNull = FALSE /\ sqlret = "none" /\ offered = 0 /\ reads = 0

InitCursor ==
    /\ variant \in Variants
    /\ nrows \in 0..MaxRows
    /\ lenient \in BOOLEAN
    /\ cur \in {PreparedStatement, DefaultStatement}
    /\ ret = NoCall
    /\ nExec = 0 /\ nFree = 0 /\ exhausted = FALSE /\ calls = 0
    /\ ScanIdle
    /\ ReadIdle
    /\ RestIdle

\* the native cursor has no further row to give
AtEnd(c, n) == c.cursorOpen /\ c.pos >= n

Step ==
    /\ calls < MaxCalls
    /\ \E fail \in Fails :
         LET r == StepOf(variant, cur, nrows, lenient, fail)
         IN  /\ cur' = r.c
             /\ ret' = [op |-> "Step", val |-> r.val, fail |-> fail,
                        first |-> (calls = 0 /\ cur = PreparedStatement)]
             /\ nExec' = nExec + r.ex
             /\ exhausted' = (exhausted \/ (r.val = "false" /\ AtEnd(r.c, nrows)))
    /\ calls' = calls + 1
    /\ UNCHANGED <<variant, nrows, lenient, nFree, scanVars, readVars, restVars>>

Reset ==
    /\ calls < MaxCalls
    /\ \E closeFails \in BOOLEAN :
         LET r == ResetOf(variant, cur, closeFails)
         IN  /\ cur' = r.c
             /\ ret' = [op |-> "Reset", val |-> r.val,
                        fail |-> IF closeFails THEN "close" ELSE "none", first |-> FALSE]
             /\ nFree' = nFree + r.freed
    /\ exhausted' = FALSE
    /\ calls' = calls + 1
    /\ UNCHANGED <<variant, nrows, lenient, nExec, scanVars, readVars, restVars>>

Close ==
    /\ calls < MaxCalls
    /\ \E closeFails \in BOOLEAN :
         LET r == CloseOf(variant, cur, closeFails)
         IN  /\ cur' = r.c
             /\ ret' = [op |-> "Close", val |-> r.val,
                        fail |-> IF closeFails THEN "close" ELSE "none", first |-> FALSE]
             /\ nFree' = nFree + r.freed
    /\ exhausted' = FALSE
    /\ calls' = calls + 1
    /\ UNCHANGED <<variant, nrows, lenient, nExec, scanVars, readVars, restVars>>

IsOpenCall ==
    /\ calls < MaxCalls
    /\ ret' = [op |-> "IsOpen",
               val |-> IF IsOpen(variant, cur) THEN "true" ELSE "false",
               fail |-> "none", first |-> FALSE]
    /\ calls' = calls + 1
    /\ UNCHANGED <<variant, nrows, lenient, cur, nExec, nFree, exhausted, scanVars, readVars, restVars>>

GetColumnCount ==
    /\ calls < MaxCalls
    /\ \E fail \in {"none", "execute"} :
         LET r == GetColumnCountOf(variant, cur, lenient, fail)
         IN  /\ cur' = r.c
             /\ ret' = [op |-> "GetColumnCount", val |-> r.val, fail |-> fail,
                        first |-> FALSE]
             /\ nExec' = nExec + r.ex
    /\ calls' = calls + 1
    /\ UNCHANGED <<variant, nrows, lenient, nFree, exhausted, scanVars, readVars, restVars>>

GetName ==
    /\ calls < MaxCalls
    /\ \E fail \in {"none", "execute"} :
         LET r == GetNameOf(variant, cur, lenient, fail)
         IN  /\ cur' = r.c
             /\ ret' = [op |-> "GetName", val |-> r.val, fail |-> fail,
                        first |-> FALSE]
             /\ nExec' = nExec + r.ex
    /\ calls' = calls + 1
    /\ UNCHANGED <<variant, nrows, lenient, nFree, exhausted, scanVars, readVars, restVars>>

GetOdbcType ==
    /\ calls < MaxCalls
    /\ \E fail \in {"none", "execute"} :
         LET r == GetOdbcTypeOf(variant, cur, lenient, fail)
         IN  /\ cur' = r.c
             /\ ret' = [op |-> "GetOdbcType", val |-> r.val, fail |-> fail,
                        first |-> FALSE]
             /\ nExec' = nExec + r.ex
    /\ calls' = calls + 1
    /\ UNCHANGED <<variant, nrows, lenient, nFree, exhausted, scanVars, readVars, restVars>>

NextCursor ==
    Step \/ Reset \/ Close \/ IsOpenCall \/ GetColumnCount \/ GetName \/ GetOdbcType

SpecCursor == InitCursor /\ [][NextCursor]_vars

\* ---------------------------------------------------------------------
\* C1: on a freshly prepared, open cursor the first Step() executes the
\* statement (once) and returns true exactly when the result set has a row.
C1_FirstStepIffNonEmpty ==
    (ret.op = "Step" /\ ret.first /\ ret.fail = "none")
        => /\ nExec = 1
           /\ ret.val \in {"true", "false"}
           /\ (ret.val = "true") <=> (nrows > 0)

\* C2: once Step() has returned false at the end of the result set, a later
\* Step() with no Reset/Close in between returns false as well: it neither
\* returns true, nor raises, nor moves back onto a row.
C2_StepAfterExhaustion ==
    [][(exhausted /\ calls' = calls + 1 /\ ret'.op = "Step" /\ ret'.fail = "none")
          => (ret'.val = "false" /\ Position(cur', nrows) = 0)]_vars

\* C6: after Close() the cursor reports IsOpen() = false, whatever state it
\* was in before.
C6_CloseThenNotOpen ==
    ret.op = "Close" => ~IsOpen(variant, cur)

\* C7: Reset() and Close() never raise, also when the native close fails,
\* release the native statement at most once over any number of calls, and
\* leave the cursor unexecuted with no result and no open native cursor.
C7_ReleaseNeverRaises ==
    /\ nFree <= 1
    /\ ret.op \in {"Reset", "Close"}
          => /\ ret.val = "ok"
             /\ ~cur.executed /\ ~cur.hasResult /\ ~cur.cursorOpen

\* the calls that may execute the native statement
ExecutingCalls == {"Step", "GetColumnCount", "GetName", "GetOdbcType"}

\* C21: across any interleaving of Step() and the metadata accessors with no
\* Reset/Close in between, the native statement is executed once: a call made
\* while the native cursor of an earlier execution is still open does not
\* execute the statement again.
C21_ExecutedOnce ==
    [][(cur.cursorOpen /\ calls' = calls + 1 /\ ret'.op \in ExecutingCalls)
          => nExec' = nExec]_vars

\* =====================================================================
\* SpecScan: one bound invocation of Scan, Query or Exec
\* =====================================================================
Scanners == {"ScanOdbcSource", "ODBCScan"}

\* the Statement Cursor class each scanner steps
CursorOf(sc) == IF sc = "ODBCScan" THEN "NanodbcStatement" ELSE "OdbcStatement"

\* the remote result set, row by row
ResultSet(n) == [i \in 1..n |-> i]

InitScan ==
    /\ scanner \in Scanners
    /\ entry \in {"SCAN", "QUERY", "EXEC"}
    /\ entry = "EXEC" => scanner = "ScanOdbcSource"
    /\ ncols \in {0, 1}
    /\ entry = "SCAN" => ncols = 1
    /\ colName \in {"c0", "Success"}
    /\ nrows \in 0..MaxRows
    /\ (ncols = 0 \/ entry = "EXEC") => (nrows = 0 /\ colName = "c0")
    /\ variant = CursorOf(scanner)
    /\ lenient = FALSE
    /\ cur = DefaultStatement
    /\ ret = NoCall
    /\ nExec = 0 /\ nFree = 0 /\ exhausted = FALSE /\ calls = 0
    /\ phase = "unbound" /\ column_names = <<>> /\ column_types = <<>>
    /\ hasStmt = FALSE /\ done = FALSE /\ finished = FALSE
    /\ out = [card |-> 0, data |-> <<>>] /\ emitted = <<>>
    /\ nFetch = 0 /\ nSteps = 0 /\ sawEnd = FALSE
    /\ remoteExec = 0 /\ connects = 0
    /\ ReadIdle
    /\ RestIdle

\* ------------------------------------------------------------ bind
\* names and types of the remote columns as the binder records them
RemoteNames == IF ncols = 0 THEN <<>> ELSE <<colName>>
RemoteTypes == IF ncols = 0 THEN <<>> ELSE <<"MAPPED">>

\* BindOdbcFunction, QUERY: a statement without result columns is bound
\* as one BOOLEAN column named "Success"
QuerySchema(columnCount, names, types) ==
    IF columnCount = 0
    THEN [names |-> <<"Success">>, types |-> <<"BOOLEAN">>]
    ELSE [names |-> names, types |-> types]

\* what a bind does: schema, connects made, executions of the bound statement,
\* and whether it raised
BindOdbcFunction(op, connectFail, execFail) ==
    IF connectFail THEN [err |-> TRUE, names |-> <<>>, types |-> <<>>, conn |-> 1, ex |-> 0]
    ELSE IF op = "SCAN"
    THEN [err |-> (RemoteNames = <<>>), names |-> RemoteNames, types |-> RemoteTypes,
          conn |-> 1, ex |-> 0]
    \* QUERY connects a second time, prepares and asks GetColumnCount(),
    \* which executes the statement
    ELSE IF execFail
    THEN [err |-> TRUE, names |-> <<>>, types |-> <<>>, conn |-> 2, ex |-> 0]
    ELSE LET q == QuerySchema(ncols, RemoteNames, RemoteTypes)
         IN  [err |-> FALSE, names |-> q.names, types |-> q.types, conn |-> 2, ex |-> 1]

\* nanodbc_scanner.cpp: ODBCBind for Scan, QueryBind for Query (which calls
\* Step() to execute and refuses a statement without columns)
ODBCBind(op, connectFail, execFail) ==
    IF connectFail THEN [err |-> TRUE, names |-> <<>>, types |-> <<>>, conn |-> 1, ex |-> 0]
    ELSE IF op = "SCAN"
    THEN [err |-> (RemoteNames = <<>>), names |-> RemoteNames, types |-> RemoteTypes,
          conn |-> 1, ex |-> 0]
    ELSE IF execFail
    THEN [err |-> TRUE, names |-> <<>>, types |-> <<>>, conn |-> 1, ex |-> 0]
    ELSE [err |-> (RemoteNames = <<>>), names |-> RemoteNames, types |-> RemoteTypes,
          conn |-> 1, ex |-> 1]

\* CreateExecFunction's bind: no connect, the schema is the success column
ExecBind == [err |-> FALSE, names |-> <<"Success">>, types |-> <<"BOOLEAN">>,
             conn |-> 0, ex |-> 0]

Bind ==
    /\ phase = "unbound"
    /\ \E connectFail \in BOOLEAN, execFail \in BOOLEAN :
         LET b == IF entry = "EXEC" THEN ExecBind
                  ELSE IF scanner = "ODBCScan" THEN ODBCBind(entry, connectFail, execFail)
                  ELSE BindOdbcFunction(entry, connectFail, execFail)
         IN  /\ phase' = IF b.err THEN "failed"
                         ELSE IF entry = "EXEC" THEN "ready" ELSE "bound"
             /\ column_names' = b.names
             /\ column_types' = b.types
             /\ connects' = connects + b.conn
             /\ remoteExec' = remoteExec + b.ex
    /\ UNCHANGED <<cursorVars, scanner, entry, ncols, colName, hasStmt, done, finished,
                   out, emitted, nFetch, nSteps, sawEnd, readVars, restVars>>

\* ------------------------------------------------------------ local state
\* "Special handling for DDL statements (indicated by a single "Success" column)"
IsSuccessSchema(names) == Len(names) = 1 /\ names[1] = "Success"

\* InitOdbcLocalState: connect, then either run the bound SQL directly
\* (success schema) or prepare the scan statement
InitOdbcLocalState(names, connectFail, execFail) ==
    IF connectFail THEN [err |-> TRUE, stmt |-> FALSE, conn |-> 1, ex |-> 0]
    ELSE IF IsSuccessSchema(names)
    THEN IF execFail THEN [err |-> TRUE, stmt |-> FALSE, conn |-> 1, ex |-> 0]
         ELSE [err |-> FALSE, stmt |-> FALSE, conn |-> 1, ex |-> 1]
    ELSE [err |-> FALSE, stmt |-> TRUE, conn |-> 1, ex |-> 0]

\* ODBCInitLocalState: connect and prepare
ODBCInitLocalState(names, connectFail, execFail) ==
    IF connectFail THEN [err |-> TRUE, stmt |-> FALSE, conn |-> 1, ex |-> 0]
    ELSE [err |-> FALSE, stmt |-> TRUE, conn |-> 1, ex |-> 0]

InitLocal ==
    /\ phase = "bound"
    /\ \E connectFail \in BOOLEAN, execFail \in BOOLEAN :
         LET l == IF scanner = "ODBCScan"
                  THEN ODBCInitLocalState(column_names, connectFail, execFail)
                  ELSE InitOdbcLocalState(column_names, connectFail, execFail)
         IN  /\ phase' = IF l.err THEN "failed" ELSE "ready"
             /\ hasStmt' = l.stmt
             /\ cur' = IF l.stmt THEN PreparedStatement ELSE cur
             /\ connects' = connects + l.conn
             /\ remoteExec' = remoteExec + l.ex
    /\ done' = FALSE
    /\ UNCHANGED <<variant, nrows, lenient, ret, nExec, nFree, exhausted, calls,
                   scanner, entry, ncols, colName, column_names, column_types,
                   finished, out, emitted, nFetch, nSteps, sawEnd, readVars, restVars>>

\* ------------------------------------------------------------ fetch
\* a row loop that lets one row too many into the batch
BatchFull_OffByOne(rows) == Len(rows) = STANDARD_VECTOR_SIZE + 1

\* the batch is full: the row loop stops without stepping again
BatchFull(rows) == Len(rows) = STANDARD_VECTOR_SIZE

\* The row loop of ScanOdbcSource and of ODBCScan: step the cursor until the
\* batch is full or Step() returns false; each delivered row is the cursor's
\* current row.  The failAt-th Step() of the call meets the native failure.
RECURSIVE ScanLoop(_, _, _, _, _, _)
ScanLoop(c, rows, steps, ex, fail, failAt) ==
    IF BatchFull(rows)
    THEN [c |-> c, rows |-> rows, steps |-> steps, ex |-> ex, end |-> FALSE, err |-> FALSE]
    ELSE LET r == StepOf(variant, c, nrows, lenient,
                         IF steps + 1 = failAt THEN fail ELSE "none")
         IN  IF r.val = "error"
             THEN [c |-> r.c, rows |-> rows, steps |-> steps + 1, ex |-> ex + r.ex,
                   end |-> FALSE, err |-> TRUE]
             ELSE IF r.val = "false"
             THEN [c |-> r.c, rows |-> rows, steps |-> steps + 1, ex |-> ex + r.ex,
                   end |-> TRUE, err |-> FALSE]
             ELSE ScanLoop(r.c, Append(rows, Position(r.c, nrows)), steps + 1,
                           ex + r.ex, fail, failAt)

\* a success row emitted without marking the scan done
SuccessChunk_NotDone == [card |-> 1, data |-> <<TRUE>>, done |-> FALSE]

\* the single success row of a statement without result set
SuccessChunk == [card |-> 1, data |-> <<TRUE>>, done |-> TRUE]

\* a fetch call that finds the scan done
DoneChunk == [card |-> 0, data |-> <<>>]

Fetch ==
    /\ phase = "ready"
    /\ entry \in {"SCAN", "QUERY"}
    /\ nFetch < MaxFetch
    /\ nFetch' = nFetch + 1
    /\ IF done
       THEN /\ out' = DoneChunk
            /\ nSteps' = 0 /\ sawEnd' = FALSE
            /\ UNCHANGED <<cur, nExec, remoteExec, emitted, done, phase>>
       ELSE IF scanner = "ScanOdbcSource" /\ IsSuccessSchema(column_names)
       THEN /\ out' = [card |-> SuccessChunk.card, data |-> SuccessChunk.data]
            /\ done' = SuccessChunk.done
            /\ nSteps' = 0 /\ sawEnd' = FALSE
            /\ UNCHANGED <<cur, nExec, remoteExec, emitted, phase>>
       ELSE \E fail \in Fails, failAt \in 1..STANDARD_VECTOR_SIZE :
             LET l == ScanLoop(cur, <<>>, 0, 0, fail, failAt)
             IN  /\ cur' = l.c
                 /\ nExec' = nExec + l.ex
                 /\ remoteExec' = remoteExec + l.ex
                 /\ nSteps' = l.steps
                 /\ sawEnd' = l.end
                 /\ IF l.err
                    THEN /\ phase' = "failed"
                         /\ UNCHANGED <<out, emitted, done>>
                    ELSE /\ out' = [card |-> Len(l.rows), data |-> l.rows]
                         /\ emitted' = emitted \o l.rows
                         /\ done' = l.end
                         /\ UNCHANGED phase
    /\ UNCHANGED <<variant, nrows, lenient, ret, nFree, exhausted, calls,
                   scanner, entry, ncols, colName, column_names, column_types,
                   hasStmt, finished, connects, readVars, restVars>>

\* ------------------------------------------------------------ Exec
\* an ExecuteOdbcStatement whose successful run leaves the finished flag unset
ExecuteOdbcStatementOf_NoFinish(fin, connectFail, execFail) ==
    IF fin THEN [err |-> FALSE, card |-> 0, data |-> <<>>, finished |-> TRUE,
                 conn |-> 0, ex |-> 0]
    ELSE IF connectFail \/ execFail
    THEN [err |-> TRUE, card |-> 0, data |-> <<>>, finished |-> FALSE, conn |-> 1, ex |-> 0]
    ELSE [err |-> FALSE, card |-> 1, data |-> <<TRUE>>, finished |-> FALSE,
          conn |-> 1, ex |-> 1]

\* ExecuteOdbcStatement: nothing when finished; else connect, execute, emit
\* the success row and mark the invocation finished
ExecuteOdbcStatementOf(fin, connectFail, execFail) ==
    IF fin THEN [err |-> FALSE, card |-> 0, data |-> <<>>, finished |-> TRUE,
                 conn |-> 0, ex |-> 0]
    ELSE IF connectFail
    THEN [err |-> TRUE, card |-> 0, data |-> <<>>, finished |-> FALSE, conn |-> 1, ex |-> 0]
    ELSE IF execFail
    THEN [err |-> TRUE, card |-> 0, data |-> <<>>, finished |-> FALSE, conn |-> 1, ex |-> 0]
    ELSE [err |-> FALSE, card |-> 1, data |-> <<TRUE>>, finished |-> TRUE,
          conn |-> 1, ex |-> 1]

ExecuteOdbcStatement ==
    /\ phase = "ready"
    /\ entry = "EXEC"
    /\ nFetch < MaxFetch
    /\ nFetch' = nFetch + 1
    /\ \E connectFail \in BOOLEAN, execFail \in BOOLEAN :
         LET e == ExecuteOdbcStatementOf(finished, connectFail, execFail)
         IN  /\ finished' = e.finished
             /\ connects' = connects + e.conn
             /\ remoteExec' = remoteExec + e.ex
             /\ IF e.err
                THEN phase' = "failed" /\ UNCHANGED out
                ELSE out' = [card |-> e.card, data |-> e.data] /\ UNCHANGED phase
    /\ UNCHANGED <<cursorVars, scanner, entry, ncols, colName, column_names,
                   column_types, hasStmt, done, emitted, nSteps, sawEnd, readVars, restVars>>

NextScan == Bind \/ InitLocal \/ Fetch \/ ExecuteOdbcStatement

SpecScan == InitScan /\ [][NextScan]_vars

\* ---------------------------------------------------------------------
IsPrefix(s, t) == Len(s) <= Len(t) /\ s = SubSeq(t, 1, Len(s))

\* a scan that fetches rows through a prepared Statement Cursor
CursorScan == phase = "ready" /\ hasStmt

\* C3: the concatenation of the batches of one scan is the remote result
\* set: always a prefix of it (nothing duplicated or reordered) and, once the
\* scan is done, all of it (nothing lost).
C3_EveryRowExactlyOnce ==
    CursorScan => /\ IsPrefix(emitted, ResultSet(nrows))
                  /\ done => emitted = ResultSet(nrows)

\* C4: a batch never holds more rows than the batch capacity; a fetch call
\* that stepped the cursor emits fewer rows than the capacity only if Step()
\* returned false in that call, the cardinality is the number of rows that
\* call fetched, the scan is then marked done, and a fetch call on a done
\* scan emits no row and does not step the cursor.
C4_StateOfBatch ==
    (CursorScan /\ nFetch >= 1)
        => /\ out.card <= STANDARD_VECTOR_SIZE
           /\ out.card = Len(out.data)
           /\ out.card = nSteps - (IF sawEnd THEN 1 ELSE 0)
           /\ (nSteps > 0 /\ out.card < STANDARD_VECTOR_SIZE) => (sawEnd /\ done)
           /\ sawEnd => done

C4_DoneStaysSilent ==
    (CursorScan /\ done /\ nFetch' = nFetch + 1)
        => (out'.card = 0 /\ nSteps' = 0 /\ cur' = cur /\ done')

ZeroColumnQuery == entry = "QUERY" /\ scanner = "ScanOdbcSource" /\ ncols = 0

\* C8: a Query whose statement returns no column is bound as exactly one
\* BOOLEAN column named "Success"; its first fetch call emits one row holding
\* true and every later fetch call emits no row.
C8_SuccessSchemaOneRow ==
    (ZeroColumnQuery /\ phase \in {"bound", "ready"})
        => /\ column_names = <<"Success">>
           /\ column_types = <<"BOOLEAN">>
           /\ nFetch = 1 => (out.card = 1 /\ out.data = <<TRUE>>)
           /\ nFetch > 1 => out.card = 0

C8_Witness ==
    ZeroColumnQuery /\ phase = "ready" /\ nFetch = 2 /\ out.card = 0 /\ done

\* C9: the statement of a zero-column Query is executed on the remote source
\* exactly once per bound invocation, bind, local-state initialisation and
\* fetch calls taken together.
C9_ExecutedOncePerBind ==
    (ZeroColumnQuery /\ phase \in {"bound", "ready"}) => remoteExec = 1

\* C10: Exec executes once per bound invocation: the first call connects,
\* executes and emits one row holding true; a repeat call emits no row and
\* neither connects nor executes.
C10_ExecOnce ==
    (entry = "EXEC" /\ phase = "ready" /\ nFetch >= 1)
        => /\ finished
           /\ remoteExec = 1 /\ connects = 1
           /\ nFetch = 1 => (out.card = 1 /\ out.data = <<TRUE>>)
           /\ nFetch > 1 => out.card = 0

C10_Witness ==
    entry = "EXEC" /\ phase = "ready" /\ nFetch >= 2 /\ finished /\ out.card = 0


\* =====================================================================
\* SpecVar: ODBCUtils::ReadVarColumn against a driver's SQLGetData
\* =====================================================================
\* "Start with a reasonable buffer size"
InitialBufferSize == 4096
\* sizeof(SQLCHAR), sizeof(SQLWCHAR)
SizeofSQLCHAR == 1
SizeofSQLWCHAR == 2

CTypes == {"SQL_C_CHAR", "SQL_C_WCHAR", "SQL_C_BINARY"}
IsBinaryType(t) == t = "SQL_C_BINARY"
IsWideType(t) == t = "SQL_C_WCHAR"

\* const size_t nullTermSize
nullTermSize(t) ==
    IF IsBinaryType(t) THEN 0
    ELSE IF IsWideType(t) THEN SizeofSQLWCHAR ELSE SizeofSQLCHAR

\* the i-th byte of the remote value (never 0, so terminators and fresh
\* buffer bytes can be told from data)
Byte(i) == (i % 250) + 1
Value(n) == [i \in 1..n |-> Byte(i)]

\* lengths around every multiple of the initial buffer size
Lengths ==
    {n \in {k * InitialBufferSize + d : k \in 0..MaxChunks, d \in -2..2} : n >= 0}

\* std::vector<char>::resize: cut, or grow with zero bytes
Resize(v, n) ==
    IF n <= Len(v) THEN SubSeq(v, 1, n)
    ELSE v \o [i \in 1..(n - Len(v)) |-> 0]

\* What SQLGetData may answer when offered avail bytes at the current read
\* position: ret, the length indicator (kind/len) and the data bytes n it
\* wrote (followed by a terminator for character data).
\*  - NULL value: SQL_SUCCESS with SQL_NULL_DATA
\*  - everything handed out before: SQL_NO_DATA (or SQL_SUCCESS, length 0)
\*  - more left than fits: SQL_SUCCESS_WITH_INFO, exact residual or SQL_NO_TOTAL
\*  - the rest fits: SQL_SUCCESS with its length; a streaming driver that
\*    filled the buffer and cannot see the end reports SQL_NO_TOTAL instead
DriverReplies(avail, t) ==
    LET raw == avail - nullTermSize(t)
        cap == IF IsWideType(t) THEN raw - (raw % SizeofSQLWCHAR) ELSE raw
        rem == valLen - drvOff
    IN  {[ret |-> "SQL_ERROR", kind |-> "len", len |-> 0, n |-> 0]} \cup
        (IF valNull
         THEN {[ret |-> "SQL_SUCCESS", kind |-> "null", len |-> 0, n |-> 0]}
         ELSE IF rem = 0 /\ drvOff > 0
         THEN {[ret |-> "SQL_NO_DATA", kind |-> "len", len |-> 0, n |-> 0],
               [ret |-> "SQL_SUCCESS", kind |-> "len", len |-> 0, n |-> 0]}
         ELSE IF rem > cap
         THEN {[ret |-> "SQL_SUCCESS_WITH_INFO", kind |-> "len", len |-> rem, n |-> cap],
               [ret |-> "SQL_SUCCESS_WITH_INFO", kind |-> "nototal", len |-> 0, n |-> cap]}
         ELSE {[ret |-> "SQL_SUCCESS", kind |-> "len", len |-> rem, n |-> rem]} \cup
              (IF rem = cap /\ cap > 0
               THEN {[ret |-> "SQL_SUCCESS_WITH_INFO", kind |-> "nototal",
                      len |-> 0, n |-> cap]}
               ELSE {}))

\* the buffer after the driver wrote n data bytes (and the terminator) at
\* result.data() + totalRead
Written(v, at, n, t) ==
    [k \in 1..Len(v) |->
        IF k > at /\ k <= at + n THEN Byte(drvOff + (k - at))
        ELSE IF k > at + n /\ k <= at + n + nullTermSize(t) THEN 0
        ELSE v[k]]

InitVar ==
    /\ ctype \in CTypes
    /\ valNull \in BOOLEAN
    /\ valLen \in Lengths
    /\ valNull => valLen = 0
    /\ IsWideType(ctype) => valLen % SizeofSQLWCHAR = 0
    /\ drvOff = 0
    /\ rvpc = "call" /\ bufferSize = 0 /\ totalRead = 0 /\ result = <<>>
    /\ isNull = FALSE /\ sqlret = "none" /\ offered = 0 /\ reads = 0
    /\ variant = "OdbcStatement" /\ nrows = 0 /\ lenient = FALSE
    /\ cur = DefaultStatement /\ ret = NoCall
    /\ nExec = 0 /\ nFree = 0 /\ exhausted = FALSE /\ calls = 0
    /\ ScanIdle
    /\ RestIdle

\* entry of ReadVarColumn up to the loop
ReadVarColumn ==
    /\ rvpc = "call"
    /\ isNull' = FALSE
    /\ bufferSize' = InitialBufferSize
    /\ result' = Resize(<<>>, InitialBufferSize)
    /\ totalRead' = 0
    /\ sqlret' = "SQL_SUCCESS_WITH_INFO"
    /\ rvpc' = "loop"
    /\ UNCHANGED <<cursorVars, scanVars, restVars, ctype, valLen, valNull, drvOff, offered, reads>>

\* a pass that keeps the buffer as it is when the driver reports no total
ReadPass_NoGrowth(r, availableSpace) ==
    LET nt == nullTermSize(ctype)
        buf == Written(result, totalRead, r.n, ctype)
    IN  IF r.ret \notin {"SQL_SUCCESS", "SQL_SUCCESS_WITH_INFO", "SQL_NO_DATA"}
        THEN [pc |-> "error", isNull |-> isNull, totalRead |-> totalRead,
              bufferSize |-> bufferSize, result |-> buf]
        ELSE IF r.kind = "null"
        THEN [pc |-> "done", isNull |-> TRUE, totalRead |-> totalRead,
              bufferSize |-> bufferSize, result |-> buf]
        ELSE IF r.ret = "SQL_SUCCESS"
        THEN [pc |-> "done", isNull |-> isNull, totalRead |-> totalRead + r.len,
              bufferSize |-> bufferSize, result |-> Resize(buf, totalRead + r.len)]
        ELSE IF r.ret = "SQL_SUCCESS_WITH_INFO"
        THEN IF r.kind = "nototal"
             THEN [pc |-> "loop", isNull |-> isNull,
                   totalRead |-> totalRead + (availableSpace - nt),
                   bufferSize |-> bufferSize,
                   result |-> Resize(buf, bufferSize)]
             ELSE IF r.len >= availableSpace
             THEN LET tr == totalRead + (availableSpace - nt)
                      remaining == r.len - (availableSpace - nt)
                  IN  [pc |-> "loop", isNull |-> isNull, totalRead |-> tr,
                       bufferSize |-> tr + remaining + nt,
                       result |-> Resize(buf, tr + remaining + nt)]
             ELSE [pc |-> "done", isNull |-> isNull, totalRead |-> totalRead + r.len,
                   bufferSize |-> bufferSize, result |-> buf]
        ELSE [pc |-> "done", isNull |-> isNull, totalRead |-> totalRead,
              bufferSize |-> bufferSize, result |-> buf]

\* the state of the loop after one pass that got reply r for availableSpace
ReadPass(r, availableSpace) ==
    LET nt == nullTermSize(ctype)
        buf == Written(result, totalRead, r.n, ctype)
    IN  IF r.ret \notin {"SQL_SUCCESS", "SQL_SUCCESS_WITH_INFO", "SQL_NO_DATA"}
        THEN [pc |-> "error", isNull |-> isNull, totalRead |-> totalRead,
              bufferSize |-> bufferSize, result |-> buf]
        ELSE IF r.kind = "null"
        THEN [pc |-> "done", isNull |-> TRUE, totalRead |-> totalRead,
              bufferSize |-> bufferSize, result |-> buf]
        ELSE IF r.ret = "SQL_SUCCESS"
        THEN [pc |-> "done", isNull |-> isNull, totalRead |-> totalRead + r.len,
              bufferSize |-> bufferSize, result |-> Resize(buf, totalRead + r.len)]
        ELSE IF r.ret = "SQL_SUCCESS_WITH_INFO"
        THEN IF r.kind = "nototal"
             THEN [pc |-> "loop", isNull |-> isNull,
                   totalRead |-> totalRead + (availableSpace - nt),
                   bufferSize |-> bufferSize * 2,
                   result |-> Resize(buf, bufferSize * 2)]
             ELSE IF r.len >= availableSpace
             THEN LET tr == totalRead + (availableSpace - nt)
                      remaining == r.len - (availableSpace - nt)
                  IN  [pc |-> "loop", isNull |-> isNull, totalRead |-> tr,
                       bufferSize |-> tr + remaining + nt,
                       result |-> Resize(buf, tr + remaining + nt)]
             ELSE [pc |-> "done", isNull |-> isNull, totalRead |-> totalRead + r.len,
                   bufferSize |-> bufferSize, result |-> buf]
        ELSE [pc |-> "done", isNull |-> isNull, totalRead |-> totalRead,
              bufferSize |-> bufferSize, result |-> buf]

\* one pass of the do-while loop: SQLGetData, then the handling of its answer
SQLGetDataPass ==
    /\ rvpc = "loop"
    /\ LET availableSpace == bufferSize - totalRead
       IN  \E r \in DriverReplies(availableSpace, ctype) :
             LET p == ReadPass(r, availableSpace)
             IN  /\ rvpc' = p.pc
                 /\ isNull' = p.isNull
                 /\ totalRead' = p.totalRead
                 /\ bufferSize' = p.bufferSize
                 /\ result' = p.result
                 /\ sqlret' = r.ret
                 /\ offered' = availableSpace
                 /\ drvOff' = drvOff + r.n
    /\ reads' = reads + 1
    /\ UNCHANGED <<cursorVars, scanVars, restVars, ctype, valLen, valNull>>

NextVar == ReadVarColumn \/ SQLGetDataPass

SpecVar == InitVar /\ [][NextVar]_vars

\* ReadVarColumn is one synchronous call: once entered, its loop keeps
\* running and every SQLGetData answers
SpecVarLive == SpecVar /\ WF_vars(NextVar)

\* ---------------------------------------------------------------------
\* C5: whatever the chunking of the driver, ReadVarColumn returns the
\* value byte for byte and with its exact length, and a NULL value comes
\* back as isNull = true with an empty result.
C5_ValueReconstructed ==
    rvpc = "done"
        => IF valNull THEN isNull /\ result = <<>>
           ELSE ~isNull /\ result = Value(valLen)

\* C28: the scanner takes its path without a prepared statement only for a
\* Query whose statement returned zero columns; a Scan, or a Query of a result
\* set, whose single column is named "Success" is prepared and fetched row by
\* row like any other.
C28_SuccessPathOnlyWithoutColumns ==
    (entry \in {"SCAN", "QUERY"} /\ phase = "ready")
        => /\ ~hasStmt => (entry = "QUERY" /\ ncols = 0)
           /\ (nFetch > 0 /\ ncols > 0) => Len(emitted) <= nrows

\* C30: against a driver that on every read completes or reports truncation
\* after filling the offered space, ReadVarColumn returns after finitely many
\* reads, offers more than zero bytes to each read, and never counts more
\* bytes than its buffer holds.
C30_TerminatesInBuffer ==
    /\ [](/\ reads > 0 => offered > 0
          /\ rvpc # "call" => (totalRead <= bufferSize /\ Len(result) <= bufferSize))
    /\ <>(rvpc \in {"done", "error"})

\* a value longer than two buffers was read to its end in several reads
C30_Witness ==
    /\ rvpc = "done" /\ ~isNull /\ reads >= 3
    /\ valLen > 2 * InitialBufferSize /\ drvOff = valLen

\* =====================================================================
\* SpecAttach: one bound invocation of Attach
\* =====================================================================
\* attach calls of one bound invocation
MaxAttach == 3

\* the cursor variables at rest
CursorIdle ==
    /\ variant = "OdbcStatement" /\ nrows = 0 /\ lenient = FALSE
    /\ cur = DefaultStatement /\ ret = NoCall
    /\ nExec = 0 /\ nFree = 0 /\ exhausted = FALSE /\ calls = 0

Attachers == {"AttachOdbcDatabase", "AttachFunction"}

\* texts are sequences of characters
Locators == {<<>>, <<"d">>, <<"k", "=", "v">>}
TableLists == {<<>>, << <<"t">> >>, << <<"t">>, <<"u">> >>}
ViewLists == {<<>>, << <<"v">> >>, << <<"v">>, <<"w", "\"">> >>}

\* connection_info.find('=') != npos
HasEquals(info) == \E i \in 1..Len(info) : info[i] = "="

\* StringUtil::Replace(input, "\"", "\"\"")
RECURSIVE SanitizeString(_)
SanitizeString(input) ==
    IF input = <<>> THEN <<>>
    ELSE (IF Head(input) = "\"" THEN <<"\"", "\"">> ELSE <<Head(input)>>)
         \o SanitizeString(Tail(input))

\* "SELECT * FROM \"" + SanitizeString(view_name) + "\""
SelectFromView(view_name) ==
    <<"S", "E", "L", "E", "C", "T", " ", "*", " ", "F", "R", "O", "M", " ", "\"">>
        \o SanitizeString(view_name) \o <<"\"">>

\* ConnectionParams(connection_info, username, password) / AttachBind: a
\* locator without '=' is a DSN, any other a connection string.  odbc_attach
\* is declared with one positional argument, so no username or password
\* reaches the binder.
AttachBindData(inputs) ==
    [dsn |-> IF HasEquals(inputs.info) THEN <<>> ELSE inputs.info,
     connection_string |-> IF HasEquals(inputs.info) THEN inputs.info ELSE <<>>,
     username |-> <<>>, password |-> <<>>,
     overwrite |-> inputs.overwrite, finished |-> FALSE]

\* ConnectionParams::IsValid
IsValid(params) == params.dsn # <<>> \/ params.connection_string # <<>>

\* the credentials AttachOdbcDatabase appends after a DSN
DsnCredentials(params) ==
    IF params.username = <<>> THEN <<>>
    ELSE IF params.password = <<>> THEN <<params.username>>
    ELSE <<params.username, params.password>>

\* AttachOdbcDatabase, step 1: the arguments handed to odbc_scan
ScanArgs(params, table_name) ==
    IF params.dsn = <<>> THEN <<table_name, params.connection_string>>
    ELSE <<table_name, params.dsn>> \o DsnCredentials(params)

\* AttachOdbcDatabase, step 2: the arguments handed to odbc_query
QueryArgs(params, view_name) ==
    (IF params.dsn = <<>> THEN <<params.connection_string>>
     ELSE <<params.dsn>> \o DsnCredentials(params))
        \o <<SelectFromView(view_name)>>

\* AttachFunction: the arguments handed to odbc_scan
AttachFunctionScanArgs(data, table_name) ==
    IF data.dsn # <<>> THEN <<table_name, data.dsn, data.username, data.password>>
    ELSE <<table_name, data.connection_string>>

\* the views an attach call asks the host to create, in order
Registrations(who, data, tables, views) ==
    IF who = "AttachOdbcDatabase"
    THEN [i \in 1..Len(tables) |->
             [name |-> tables[i], fn |-> "odbc_scan", args |-> ScanArgs(data, tables[i])]]
         \o [i \in 1..Len(views) |->
             [name |-> views[i], fn |-> "odbc_query", args |-> QueryArgs(data, views[i])]]
    ELSE [i \in 1..Len(tables) |->
             [name |-> tables[i], fn |-> "odbc_scan",
              args |-> AttachFunctionScanArgs(data, tables[i])]]

\* positional arguments odbc_scan and odbc_query are declared with
DeclaredArguments(fn) == 2

\* dconn.TableFunction(fn, args)->CreateView(name, overwrite, false): the host
\* binds the call (the argument count has to match the declaration) and
\* refuses to replace an existing view unless overwrite is set
CreateView(hv, reg, overwrite) ==
    IF Len(reg.args) # DeclaredArguments(reg.fn) THEN [err |-> TRUE, views |-> hv]
    ELSE IF \E v \in hv : v.name = reg.name
    THEN IF overwrite
         THEN [err |-> FALSE, views |-> {v \in hv : v.name # reg.name} \cup {reg}]
         ELSE [err |-> TRUE, views |-> hv]
    ELSE [err |-> FALSE, views |-> hv \cup {reg}]

\* the loops over tables and views: stop at the first CreateView that raises
RECURSIVE CreateViews(_, _, _, _)
CreateViews(hv, regs, overwrite, n) ==
    IF regs = <<>> THEN [err |-> FALSE, views |-> hv, n |-> n]
    ELSE LET r == CreateView(hv, Head(regs), overwrite)
         IN  IF r.err THEN [err |-> TRUE, views |-> hv, n |-> n]
             ELSE CreateViews(r.views, Tail(regs), overwrite, n + 1)

InitAttach ==
    /\ attacher \in Attachers
    /\ remoteTables \in TableLists
    /\ remoteViews \in ViewLists
    /\ attachInputs \in [info : Locators, overwrite : BOOLEAN]
    /\ attach_data = [dsn |-> <<>>, connection_string |-> <<>>, username |-> <<>>,
                      password |-> <<>>, overwrite |-> FALSE, finished |-> FALSE]
    \* the host catalog may already hold a view named like the first table
    /\ hostViews \in {{}, {[name |-> <<"t">>, fn |-> "local", args |-> <<>>]}}
    /\ attachOut = [card |-> 0, data |-> <<>>]
    /\ attachPhase = "unbound" /\ nAttach = 0 /\ nCreateView = 0 /\ attachConnects = 0
    /\ CursorIdle /\ ScanIdle /\ ReadIdle /\ TypeIdle /\ LaterIdle

\* CreateAttachFunction's bind lambda / AttachBind: no connect, no check of
\* the locator, the schema is the success column
AttachBind ==
    /\ attachPhase = "unbound"
    /\ attach_data' = AttachBindData(attachInputs)
    /\ attachPhase' = "ready"
    /\ UNCHANGED <<attacher, remoteTables, remoteViews, hostViews, attachOut, nAttach,
                   nCreateView, attachInputs, attachConnects, othersAttach>>

\* one call of AttachOdbcDatabase / AttachFunction, given the tables and the
\* views the catalog calls return
AttachCallWith(who, data, hv, connectFail, tables, views) ==
    IF data.finished
    THEN [err |-> FALSE, views |-> hv, n |-> 0, conn |-> 0, finished |-> TRUE,
          out |-> [card |-> 0, data |-> <<>>]]
    ELSE IF ~IsValid(data)
    THEN [err |-> TRUE, views |-> hv, n |-> 0, conn |-> 0, finished |-> FALSE,
          out |-> [card |-> 0, data |-> <<>>]]
    ELSE IF connectFail
    THEN [err |-> TRUE, views |-> hv, n |-> 0, conn |-> 1, finished |-> FALSE,
          out |-> [card |-> 0, data |-> <<>>]]
    ELSE LET c == CreateViews(hv, Registrations(who, data, tables, views),
                              data.overwrite, 0)
         IN  [err |-> c.err, views |-> c.views, n |-> c.n, conn |-> 1,
              finished |-> ~c.err,
              out |-> IF c.err THEN [card |-> 0, data |-> <<>>]
                      ELSE [card |-> 1, data |-> <<TRUE>>]]

AttachCallOf(who, data, hv, connectFail) ==
    AttachCallWith(who, data, hv, connectFail, remoteTables, remoteViews)

Attach ==
    /\ attachPhase = "ready"
    /\ nAttach < MaxAttach
    /\ nAttach' = nAttach + 1
    /\ \E connectFail \in BOOLEAN :
         LET a == AttachCallOf(attacher, attach_data, hostViews, connectFail)
         IN  /\ hostViews' = a.views
             /\ nCreateView' = nCreateView + a.n
             /\ attachConnects' = attachConnects + a.conn
             /\ attach_data' = [attach_data EXCEPT !.finished = a.finished]
             /\ IF a.err
                THEN attachPhase' = "failed" /\ UNCHANGED attachOut
                ELSE attachOut' = a.out /\ UNCHANGED attachPhase
    /\ UNCHANGED <<attacher, remoteTables, remoteViews, attachInputs, othersAttach>>

NextAttach == AttachBind \/ Attach

SpecAttach == InitAttach /\ [][NextAttach]_vars

\* ---------------------------------------------------------------------
\* how the Scan and the Query entry points read their positional inputs
ScanTableOf(args) == args[1]
QuerySqlOf(args) == args[2]

Range(seq) == {seq[i] : i \in 1..Len(seq)}

\* C11: once an attach call has returned its success row, the host holds
\* exactly one view per remote table, bound to odbc_scan of that table, and
\* exactly one view per remote view, bound to odbc_query of
\* SELECT * FROM "<view>"; a later call returns no row, registers nothing
\* and does not connect.
C11_StateOfAttach ==
    (attachPhase = "ready" /\ attach_data.finished)
        => /\ \A t \in Range(remoteTables) :
                 \E v \in hostViews : /\ v.name = t /\ v.fn = "odbc_scan"
                                      /\ ScanTableOf(v.args) = t
           /\ \A w \in Range(remoteViews) :
                 \E v \in hostViews : /\ v.name = w /\ v.fn = "odbc_query"
                                      /\ QuerySqlOf(v.args) = SelectFromView(w)
           /\ Cardinality({v \in hostViews : v.fn # "local"})
                 = Len(remoteTables) + Len(remoteViews)
           /\ nAttach = 1 => attachOut = [card |-> 1, data |-> <<TRUE>>]
           /\ nAttach > 1 => attachOut.card = 0

C11_RepeatIsSilent ==
    (attach_data.finished /\ nAttach' = nAttach + 1)
        => (hostViews' = hostViews /\ attachConnects' = attachConnects
            /\ attachOut'.card = 0)

C11_AttachRegistersViews == [](C11_StateOfAttach) /\ [][C11_RepeatIsSilent]_vars

\* =====================================================================
\* SpecType: one remote column, typed at bind time and materialized
\* =====================================================================
\* the type codes TypeToLogicalType has a case for
BooleanCodes == {"SQL_BIT"}
DecimalCodes == {"SQL_DECIMAL", "SQL_NUMERIC"}
TextCodes == {"SQL_CHAR", "SQL_VARCHAR", "SQL_LONGVARCHAR",
              "SQL_WCHAR", "SQL_WVARCHAR", "SQL_WLONGVARCHAR"}
BinaryCodes == {"SQL_BINARY", "SQL_VARBINARY", "SQL_LONGVARBINARY"}
SupportedCodes ==
    BooleanCodes \cup DecimalCodes \cup TextCodes \cup BinaryCodes \cup
    {"SQL_TINYINT", "SQL_SMALLINT", "SQL_INTEGER", "SQL_BIGINT", "SQL_REAL", "SQL_FLOAT",
     "SQL_DOUBLE", "SQL_DATE", "SQL_TYPE_DATE", "SQL_TIME", "SQL_TYPE_TIME",
     "SQL_TIMESTAMP", "SQL_TYPE_TIMESTAMP", "SQL_GUID"}
\* codes without a case of their own; SQL_BOOLEAN has one only in builds
\* whose headers define it
OtherCodes == {"SQL_BOOLEAN", "SQL_UNKNOWN_TYPE", "SQL_INTERVAL_YEAR", "SQL_SS_XML"}
TypeCodes == SupportedCodes \cup OtherCodes

\* metadata a driver may report
ColumnSizes == {0, 1, 4, 5, 10, 38, 39, 65, 256, 294}
DecimalDigits == {0, 2, 4}

\* LogicalType::DECIMAL(uint8_t width, uint8_t scale) of the host: the
\* arguments are narrowed to 8 bits, and a width beyond 38 has no storage
\* type and raises
MaxDecimalWidth == 38
Uint8(n) == n % 256
LogicalType_DECIMAL(width, scale) ==
    IF Uint8(width) > MaxDecimalWidth THEN [id |-> "RAISED"]
    ELSE [id |-> "DECIMAL", width |-> Uint8(width), scale |-> Uint8(scale)]

Simple(id) == [id |-> id]

\* ODBCUtils::TypeToLogicalType / NanodbcUtils::TypeToLogicalType
TypeToLogicalType(code, size, digits, sqlBoolean) ==
    IF code = "SQL_BIT" \/ (sqlBoolean /\ code = "SQL_BOOLEAN") THEN Simple("BOOLEAN")
    ELSE IF code = "SQL_TINYINT" THEN Simple("TINYINT")
    ELSE IF code = "SQL_SMALLINT" THEN Simple("SMALLINT")
    ELSE IF code = "SQL_INTEGER" THEN Simple("INTEGER")
    ELSE IF code = "SQL_BIGINT" THEN Simple("BIGINT")
    ELSE IF code \in {"SQL_REAL", "SQL_FLOAT"} THEN Simple("FLOAT")
    ELSE IF code = "SQL_DOUBLE" THEN Simple("DOUBLE")
    ELSE IF code \in {"SQL_DECIMAL", "SQL_NUMERIC"} THEN LogicalType_DECIMAL(size, digits)
    ELSE IF code \in {"SQL_CHAR", "SQL_VARCHAR", "SQL_LONGVARCHAR",
                      "SQL_WCHAR", "SQL_WVARCHAR", "SQL_WLONGVARCHAR"} THEN Simple("VARCHAR")
    ELSE IF code \in {"SQL_BINARY", "SQL_VARBINARY", "SQL_LONGVARBINARY"} THEN Simple("BLOB")
    ELSE IF code \in {"SQL_DATE", "SQL_TYPE_DATE"} THEN Simple("DATE")
    ELSE IF code \in {"SQL_TYPE_TIME", "SQL_TIME"} THEN Simple("TIME")
    ELSE IF code \in {"SQL_TYPE_TIMESTAMP", "SQL_TIMESTAMP"} THEN Simple("TIMESTAMP")
    ELSE IF code = "SQL_GUID" THEN Simple("UUID")
    ELSE Simple("VARCHAR")

\* a binder that maps the type code whatever the option says
ColumnType_IgnoresOption(allVarchar, code, size, digits, sqlBoolean) ==
    TypeToLogicalType(code, size, digits, sqlBoolean)

\* the binders (ODBCBind through GetTableInfo, QueryBind): the all_varchar
\* option bypasses the type mapping
ColumnType(allVarchar, code, size, digits, sqlBoolean) ==
    IF allVarchar THEN Simple("VARCHAR")
    ELSE TypeToLogicalType(code, size, digits, sqlBoolean)

\* ------------------------------------------------------------ decimal cells
\* texts a driver may hand back for a decimal value
DecimalStrings ==
    {<<"1", "2", ".", "5", "0">>,
     <<"0", ".", "0", "0">>,
     <<"1", "2">>,
     <<"1", "2", "3">>,
     <<"1", ".", "2", "3", "9">>,
     <<"-", "7", ".", "5">>,
     <<"1", "2", "3", "4", "5">>,
     <<"9", "9", ".", "9", "9", "5">>,
     <<"1", "x">>,
     <<>>,
     <<".", "5">>,
     <<"0", "0", "0", "1", "2", ".", "5">>}

DigitChars == {"0", "1", "2", "3", "4", "5", "6", "7", "8", "9"}
DigitVal(ch) ==
    CASE ch = "0" -> 0 [] ch = "1" -> 1 [] ch = "2" -> 2 [] ch = "3" -> 3 [] ch = "4" -> 4
      [] ch = "5" -> 5 [] ch = "6" -> 6 [] ch = "7" -> 7 [] ch = "8" -> 8 [] ch = "9" -> 9

RECURSIVE Pow10(_)
Pow10(n) == IF n <= 0 THEN 1 ELSE 10 * Pow10(n - 1)

\* position of the first '.' of str, Len(str) + 1 when there is none
RECURSIVE DotAt(_, _)
DotAt(str, i) ==
    IF i > Len(str) THEN i ELSE IF str[i] = "." THEN i ELSE DotAt(str, i + 1)

\* the text split into sign, integer digits and fraction digits; ok is false
\* for a text that is not [-]digits[.digits] with at least one digit
SplitDecimal(str) ==
    LET neg == str # <<>> /\ Head(str) = "-"
        body == IF neg THEN Tail(str) ELSE str
        dot == DotAt(body, 1)
        ip == SubSeq(body, 1, dot - 1)
        fp == SubSeq(body, dot + 1, Len(body))
    IN  [ok |-> /\ Len(ip) + Len(fp) > 0
                /\ \A i \in 1..Len(ip) : ip[i] \in DigitChars
                /\ \A i \in 1..Len(fp) : fp[i] \in DigitChars,
         neg |-> neg, ip |-> ip, fp |-> fp]

\* the number a digit sequence spells
RECURSIVE DigitsValue(_)
DigitsValue(ds) ==
    IF ds = <<>> THEN 0
    ELSE 10 * DigitsValue(SubSeq(ds, 1, Len(ds) - 1)) + DigitVal(ds[Len(ds)])

\* digits left after the leading zeros
RECURSIVE StripLeadingZeros(_)
StripLeadingZeros(ds) ==
    IF ds # <<>> /\ Head(ds) = "0" THEN StripLeadingZeros(Tail(ds)) ELSE ds

\* number of decimal digits of n > 0, 0 for n = 0
RECURSIVE NumDigits(_)
NumDigits(n) == IF n = 0 THEN 0 ELSE 1 + NumDigits(n \div 10)

\* TryDecimalStringCast<T>(str, len, result, width, scale) of the host: more
\* integer digits than width - scale fail; fraction digits beyond scale are
\* rounded half away from zero; the rounded value has to stay below 10^width
TryDecimalStringCast(str, width, scale) ==
    LET p == SplitDecimal(str)
    IN  IF ~p.ok THEN [success |-> FALSE, val |-> 0]
        ELSE IF Len(StripLeadingZeros(p.ip)) > width - scale
        THEN [success |-> FALSE, val |-> 0]
        ELSE LET kept == SubSeq(p.fp, 1, IF Len(p.fp) < scale THEN Len(p.fp) ELSE scale)
                 up == IF Len(p.fp) > scale /\ DigitVal(p.fp[scale + 1]) >= 5 THEN 1 ELSE 0
                 mag == (DigitsValue(p.ip) * Pow10(Len(kept)) + DigitsValue(kept) + up)
                            * Pow10(scale - Len(kept))
             IN  IF NumDigits(mag) > width THEN [success |-> FALSE, val |-> 0]
                 ELSE [success |-> TRUE, val |-> IF p.neg THEN 0 - mag ELSE mag]

\* ODBCScan, case LogicalTypeId::DECIMAL: width and scale of the column type,
\* replaced by the metadata and then by 38 and 2 wherever they are 0
BackupWidth(type, size) ==
    LET w == IF type.width = 0 THEN Uint8(size) ELSE type.width
    IN  IF w = 0 THEN 38 ELSE w
BackupScale(type, digits) ==
    LET sc == IF type.scale = 0 THEN Uint8(digits) ELSE type.scale
    IN  IF sc = 0 THEN 2 ELSE sc

\* the cell after the DECIMAL case handled a non-NULL value
DecimalCell(type, size, digits, str) ==
    LET r == TryDecimalStringCast(str, BackupWidth(type, size), BackupScale(type, digits))
    IN  IF r.success THEN [valid |-> TRUE, val |-> r.val]
        ELSE [valid |-> FALSE, val |-> 0]

\* ------------------------------------------------------------ binders
TypeBinders == {"BindOdbcFunction", "ODBCBind"}

\* a table or statement without columns: BindOdbcFunction binds a
\* statement as the success column and refuses a table; ODBCBind and
\* QueryBind refuse both
EmptySchema(binder, op) ==
    IF binder = "BindOdbcFunction" /\ op = "QUERY"
    THEN [err |-> FALSE, types |-> <<Simple("BOOLEAN")>>]
    ELSE [err |-> TRUE, types |-> <<>>]

\* ------------------------------------------------- type-consistency checks
TypeChecks == {"OdbcStatement::ValidateType", "NanodbcStatement::CheckTypeMatches",
               "ODBCStatement::CheckTypeMatches"}

\* runtime type codes a driver may report for a value of a column
RuntimeCodes(code) == {code, "SQL_INTEGER", "SQL_VARCHAR"}

\* one call of a check: ValidateType gets no bind data; the two
\* CheckTypeMatches return at once under all_varchar
TypeCheck(fn, allVarchar, null, odbcType, expectedType) ==
    LET skip == fn # "OdbcStatement::ValidateType" /\ allVarchar
    IN  [fn |-> fn, null |-> null, odbc_type |-> odbcType, expected_type |-> expectedType,
         raised |-> ~skip /\ ~null /\ odbcType # expectedType]

\* the checks the row loop of each scanner calls for a value: none
ScanTypeChecks(binder) == {}

InitType ==
    /\ odbc_type \in TypeCodes
    /\ column_size \in ColumnSizes
    /\ decimal_digits \in DecimalDigits
    /\ decimal_str \in DecimalStrings
    /\ odbc_type \notin DecimalCodes
          => (column_size \in {0, 10} /\ decimal_digits = 0 /\ decimal_str = <<>>)
    /\ hasSqlBoolean \in BOOLEAN
    /\ all_varchar \in BOOLEAN
    /\ typeBinder \in TypeBinders
    /\ typeEntry \in {"SCAN", "QUERY"}
    /\ column_count \in {0, 1}
    /\ column_count = 0
          => (odbc_type = "SQL_VARCHAR" /\ column_size = 0 /\ ~hasSqlBoolean)
    /\ declared = [id |-> "INVALID"]
    /\ cell = [valid |-> TRUE, val |-> 0]
    /\ tpc = "bind"
    /\ return_types = <<>> /\ nGetName = 0
    /\ checkCall = [fn |-> "none", null |-> FALSE, odbc_type |-> "none",
                    expected_type |-> "none", raised |-> FALSE]
    /\ CursorIdle /\ ScanIdle /\ ReadIdle /\ AttachIdle /\ LaterIdle

\* the binder types the column of a one-column table or statement
BindColumn ==
    /\ tpc = "bind" /\ column_count = 1
    /\ LET t == ColumnType(all_varchar, odbc_type, column_size, decimal_digits, hasSqlBoolean)
       IN  /\ declared' = t
           /\ tpc' = IF t.id = "RAISED" THEN "raised" ELSE "bound"
           /\ return_types' = IF t.id = "RAISED" THEN <<>> ELSE <<t>>
    /\ UNCHANGED <<columnVars, cell, checkCall, nGetName, othersType>>

\* the binder meets a table or statement without columns
BindNoColumns ==
    /\ tpc = "bind" /\ column_count = 0
    /\ LET b == EmptySchema(typeBinder, typeEntry)
       IN  /\ return_types' = b.types
           /\ tpc' = IF b.err THEN "refused" ELSE "success"
    /\ UNCHANGED <<columnVars, declared, cell, checkCall, nGetName, othersType>>

\* the row loop materializes a non-NULL value of a DECIMAL column
MaterializeDecimal ==
    /\ tpc = "bound"
    /\ declared.id = "DECIMAL"
    /\ cell' = DecimalCell(declared, column_size, decimal_digits, decimal_str)
    /\ tpc' = "cell"
    /\ UNCHANGED <<columnVars, declared, return_types, checkCall, nGetName, othersType>>

\* the row loop handles a non-NULL value whose runtime type code the driver
\* reports as runtime; the type-consistency checks the loop makes decide
\* whether the scan goes on
ScanValue ==
    /\ tpc = "bound"
    /\ \E runtime \in RuntimeCodes(odbc_type) :
         LET made == {TypeCheck(fn, all_varchar, FALSE, runtime, odbc_type) :
                          fn \in ScanTypeChecks(typeBinder)}
             raised == \E c \in made : c.raised
         IN  /\ tpc' = IF raised THEN "mismatch" ELSE "scanned"
             /\ checkCall' = [fn |-> "none", null |-> FALSE, odbc_type |-> runtime,
                              expected_type |-> odbc_type, raised |-> raised]
             /\ nGetName' = nGetName + Cardinality({c \in made : c.raised})
    /\ UNCHANGED <<columnVars, declared, cell, return_types, othersType>>

\* one call of a type-consistency check for the bound column
CheckType ==
    /\ tpc = "bound"
    /\ \E fn \in TypeChecks, null \in BOOLEAN, runtime \in RuntimeCodes(odbc_type) :
         LET c == TypeCheck(fn, all_varchar, null, runtime, odbc_type)
         IN  /\ checkCall' = c
             /\ nGetName' = nGetName + (IF c.raised THEN 1 ELSE 0)
    /\ tpc' = "checked"
    /\ UNCHANGED <<columnVars, declared, cell, return_types, othersType>>

NextType == BindColumn \/ BindNoColumns \/ MaterializeDecimal \/ ScanValue \/ CheckType

SpecType == InitType /\ [][NextType]_vars

\* ---------------------------------------------------------------------
\* C12: the type mapping never raises, whatever code, size and scale the
\* driver reports, and a code outside the supported set maps to VARCHAR.
C12_MappingTotal ==
    (tpc # "bind" /\ ~all_varchar)
        => /\ tpc # "raised"
           /\ (odbc_type \notin SupportedCodes /\ ~(hasSqlBoolean /\ odbc_type = "SQL_BOOLEAN"))
                 => declared = Simple("VARCHAR")

\* a decimal column typed from the driver's metadata
DecimalColumn == odbc_type \in DecimalCodes /\ ~all_varchar /\ column_size <= MaxDecimalWidth

\* width and scale the column should get: the driver's, or 38 and 2 when the
\* driver reports none
ExpectedDecimal ==
    IF column_size = 0 /\ decimal_digits = 0 THEN [width |-> 38, scale |-> 2]
    ELSE [width |-> column_size, scale |-> decimal_digits]

\* C13: a decimal column is bound as decimal(width, scale) of the remote
\* metadata, as decimal(38, 2) when the driver reports neither, and the
\* materializer parses its values with that same width and scale (a
\* reported scale of 0 included).
C13_DecimalWidthScale ==
    (DecimalColumn /\ tpc \in {"bound", "cell"})
        => /\ declared = [id |-> "DECIMAL", width |-> ExpectedDecimal.width,
                          scale |-> ExpectedDecimal.scale]
           /\ tpc = "cell"
                 => /\ BackupWidth(declared, column_size) = ExpectedDecimal.width
                    /\ BackupScale(declared, decimal_digits) = ExpectedDecimal.scale

\* digits left after the trailing zeros
RECURSIVE StripTrailingZeros(_)
StripTrailingZeros(ds) ==
    IF ds # <<>> /\ ds[Len(ds)] = "0"
    THEN StripTrailingZeros(SubSeq(ds, 1, Len(ds) - 1)) ELSE ds

\* str spells a number that decimal(width, scale) holds exactly
ExactlyRepresentable(str, width, scale) ==
    LET p == SplitDecimal(str)
    IN  /\ p.ok
        /\ Len(StripLeadingZeros(p.ip)) <= width - scale
        /\ Len(StripTrailingZeros(p.fp)) <= scale

\* value * 10^scale of such a str
FixedPoint(str, scale) ==
    LET p == SplitDecimal(str)
        fp == StripTrailingZeros(p.fp)
        mag == DigitsValue(p.ip) * Pow10(scale) + DigitsValue(fp) * Pow10(scale - Len(fp))
    IN  IF p.neg THEN 0 - mag ELSE mag

\* C14: a materialized decimal cell holds value * 10^scale of the column's
\* scale when the text is exactly representable in the column's decimal type,
\* and is NULL otherwise (too many digits, or no number at all); no other
\* value is ever stored.
C14_DecimalCell ==
    (tpc = "cell" /\ declared.id = "DECIMAL")
        => IF ExactlyRepresentable(decimal_str, declared.width, declared.scale)
           THEN cell = [valid |-> TRUE, val |-> FixedPoint(decimal_str, declared.scale)]
           ELSE ~cell.valid

\* the bind returned a schema
SchemaBound == tpc \notin {"bind", "raised", "refused"}

\* C16 as stated: with all_varchar set every column of the bound schema,
\* of Scan and of Query, is text, and no type-consistency check raises
\* during the scan.
C16_EverySchemaColumnText ==
    (all_varchar /\ SchemaBound) =>
        /\ \A i \in 1..Len(return_types) : return_types[i] = Simple("VARCHAR")
        /\ tpc # "mismatch"

\* C16: with all_varchar set every column bound from a remote column,
\* of Scan and of Query, is text whatever its remote type code, and no
\* type-consistency check raises during the scan.  (The success column
\* bound for a statement without columns stays BOOLEAN.)
C16_AllVarchar ==
    (all_varchar /\ SchemaBound /\ column_count >= 1) =>
        /\ return_types = <<Simple("VARCHAR")>>
        /\ declared = Simple("VARCHAR")
        /\ tpc # "mismatch"

\* a DATE column scanned under all_varchar while the driver reports another
\* runtime type code for the value
C16_Witness ==
    /\ all_varchar /\ odbc_type = "SQL_TYPE_DATE" /\ tpc = "scanned"
    /\ checkCall.odbc_type # odbc_type
    /\ return_types = <<Simple("VARCHAR")>>

\* C17: a type-consistency check raises if and only if all_varchar is
\* false, the value is not NULL and the runtime type code differs from the
\* declared one; a check that does not raise makes no call on the statement.
C17_TypeCheckIff ==
    tpc = "checked" =>
        /\ checkCall.raised <=>
              (~all_varchar /\ ~checkCall.null
                 /\ checkCall.odbc_type # checkCall.expected_type)
        /\ ~checkCall.raised => nGetName = 0

\* =====================================================================
\* SpecCells: the row loop of the two scanners, cell by cell
\* =====================================================================
\* rows of the largest result set
MaxCellRows == 3

CellScanners == {"ScanOdbcSource", "ODBCScan"}

\* the case labels of the row loop's switch
FixedWidthIds == {"BOOLEAN", "TINYINT", "SMALLINT", "INTEGER", "BIGINT", "FLOAT", "DOUBLE",
                  "DATE", "TIME", "TIMESTAMP"}
TextIds == {"VARCHAR"}
VectorIds == FixedWidthIds \cup TextIds \cup {"UUID", "DECIMAL", "BLOB"}

\* a remote cell is NULL, or holds a value the column's conversion accepts
\* ("ok"), or a text that UUID::FromString / TryDecimalStringCast rejects
\* ("bad", only in UUID and DECIMAL columns)
CellKinds == {"NULL", "ok", "bad"}
\* schemas of the scanned result set: every type alone, and every pair of
\* one type per kind of case (fixed-width, text, UUID, DECIMAL, BLOB)
ColumnLayouts ==
    {<<t>> : t \in VectorIds} \cup
    {<<t, u>> : t, u \in {"INTEGER", "TIMESTAMP", "VARCHAR", "UUID", "DECIMAL", "BLOB"}}

\* output.ColumnCount()
ColumnCount == Len(vec_types)

KindsOf(type) == IF type \in {"UUID", "DECIMAL"} THEN CellKinds ELSE {"NULL", "ok"}

\* the value the getter of the vector's type reads from column col of the
\* cursor's current row, row of the result set
Fetched(type, row, col) == [type |-> type, row |-> row, col |-> col]

CellUnwritten == [valid |-> FALSE, data |-> Fetched("unset", 0, 0)]
CellWritten(type, row, col) == [valid |-> TRUE, data |-> Fetched(type, row, col)]

\* the switch has no label for the vector's type: the default label throws
\* (ScanOdbcSource has no DECIMAL case)
CellThrows(who, type, kind) ==
    ~(kind = "NULL") /\ who = "ScanOdbcSource" /\ type = "DECIMAL"

\* state.statement->IsNull(col_idx) / result.is_null(col_idx)
CellIsNull(kind) == kind = "NULL"

\* a column loop whose NULL test is skipped for text columns
MaterializeCell_SkipsNullTest(who, type, kind, row, col) ==
    IF CellIsNull(kind) /\ type # "VARCHAR" THEN CellUnwritten
    ELSE IF type \in FixedWidthIds \cup TextIds \cup {"BLOB"} THEN CellWritten(type, row, col)
    ELSE IF kind = "ok" /\ ~(type = "DECIMAL" /\ who = "ScanOdbcSource")
         THEN CellWritten(type, row, col)
    ELSE CellUnwritten

\* one pass of the column loop's body: the cell of output vector col at
\* the batch row in progress, for the cursor's current row
MaterializeCell(who, type, kind, row, col) ==
    IF CellIsNull(kind) THEN CellUnwritten
    ELSE IF type \in FixedWidthIds \cup TextIds THEN CellWritten(type, row, col)
    ELSE IF type = "UUID"
         THEN IF kind = "ok" THEN CellWritten(type, row, col) ELSE CellUnwritten
    ELSE IF type = "DECIMAL"
         THEN IF kind = "ok" /\ who = "ODBCScan" THEN CellWritten(type, row, col)
              ELSE CellUnwritten
    ELSE CellWritten(type, row, col)                       \* BLOB

\* rows one call handles: until the batch is full or the cursor is drained
RowsTaken(n, count) ==
    IF n - count < STANDARD_VECTOR_SIZE THEN n - count ELSE STANDARD_VECTOR_SIZE

RowRaises(who, types, rows, row) ==
    \E col \in 1..Len(types) :
        CellThrows(who, types[col], rows[row][col])

InitCells ==
    /\ cellScanner \in CellScanners
    /\ vec_types \in ColumnLayouts
    /\ \E n \in 0..MaxCellRows : resultRows \in [1..n -> [1..ColumnCount -> CellKinds]]
    /\ \A r \in 1..Len(resultRows) : \A c \in 1..ColumnCount :
           resultRows[r][c] \in KindsOf(vec_types[c])
    /\ cellDone = FALSE /\ scan_count = 0
    /\ output = [card |-> 0, cols |-> <<>>] /\ cellpc = "idle"
    /\ CursorIdle /\ ScanIdle /\ ReadIdle /\ AttachIdle /\ TypeIdle /\ LocIdle /\ DescIdle /\ ConnIdle
    /\ FinalIdle

\* one scan call that returns a batch (ScanOdbcSource / ODBCScan)
ScanCells ==
    /\ cellpc # "raised" /\ ~cellDone
    /\ LET take == RowsTaken(Len(resultRows), scan_count)
       IN  /\ \A k \in 1..take :
                 ~RowRaises(cellScanner, vec_types, resultRows, scan_count + k)
           /\ output' = [card |-> take,
                         cols |-> [c \in 1..ColumnCount |->
                                    [k \in 1..take |->
                                       MaterializeCell(cellScanner, vec_types[c],
                                                       resultRows[scan_count + k][c],
                                                       scan_count + k, c)]]]
           /\ scan_count' = scan_count + take
           /\ cellDone' = (take < STANDARD_VECTOR_SIZE)
    /\ cellpc' = "emitted"
    /\ UNCHANGED <<cellScanner, vec_types, resultRows, othersCell>>

\* one scan call that meets a cell it has no conversion for: the call
\* raises and no batch is handed back
ScanCellsRaises ==
    /\ cellpc # "raised" /\ ~cellDone
    /\ LET take == RowsTaken(Len(resultRows), scan_count)
           bad == {k \in 1..take :
                      RowRaises(cellScanner, vec_types, resultRows, scan_count + k)}
       IN  /\ bad # {}
           /\ scan_count' = scan_count + (CHOOSE k \in bad : \A j \in bad : k <= j)
    /\ cellpc' = "raised"
    /\ UNCHANGED <<cellScanner, vec_types, resultRows, cellDone, output, othersCell>>

NextCells == ScanCells \/ ScanCellsRaises

SpecCells == InitCells /\ [][NextCells]_vars

\* the result-set row behind batch row k of the batch just emitted
ResultRowOf(k) == (scan_count - output.card) + k

\* C15: in every emitted batch a cell is NULL when the remote value is
\* NULL; in a fixed-width or text column it is NULL only then; and a cell
\* that holds a value holds the value of the same row and the same column
\* of the result set.
C15_NullBitmap ==
    cellpc = "emitted" =>
        \A k \in 1..output.card : \A c \in 1..ColumnCount :
            LET kind == resultRows[ResultRowOf(k)][c]
                cl == output.cols[c][k]
            IN  /\ kind = "NULL" => ~cl.valid
                /\ vec_types[c] \in FixedWidthIds \cup TextIds => (~cl.valid => kind = "NULL")
                /\ cl.valid => cl.data = Fetched(vec_types[c], ResultRowOf(k), c)

\* a second batch with a NULL cell and a value cell in it
C15_Witness ==
    /\ cellpc = "emitted" /\ output.card >= 1 /\ scan_count > STANDARD_VECTOR_SIZE
    /\ \E k \in 1..output.card : \E c, d \in 1..ColumnCount :
          /\ resultRows[ResultRowOf(k)][c] = "NULL" /\ ~output.cols[c][k].valid
          /\ resultRows[ResultRowOf(k)][d] = "ok" /\ output.cols[d][k].valid
          /\ vec_types[d] \in FixedWidthIds

\* C27: every column type the mapper can produce is handled by the row
\* loop's dispatch: no scan call ends in "Unsupported ODBC to DuckDB type
\* conversion" because of a non-NULL value.
C27_EveryTypeHandled ==
    cellpc # "raised"

\* =====================================================================
\* SpecLocator: the locator of an invocation, from bind to the calls
\* =====================================================================
\* fetch / execute calls of one invocation
MaxLocCalls == 2

LocFiles == {"odbc_scanner.cpp", "nanodbc_scanner.cpp"}
LocEntries == {"SCAN", "QUERY", "ATTACH", "EXEC"}
Credentials == {<<>>, <<"u">>}

\* a parse that keeps the text in both fields
ParseLocator_Both(info) == [dsn |-> info, connection_string |-> info]

\* ConnectionParams(connection_info, ...) / the binders of
\* nanodbc_scanner.cpp: a DSN unless the text holds '='
ParseLocator(info) ==
    [dsn |-> IF HasEquals(info) THEN <<>> ELSE info,
     connection_string |-> IF HasEquals(info) THEN info ELSE <<>>]

\* entry points whose bind opens a connection to read the schema
BindConnects(op) == op \in {"SCAN", "QUERY"}

\* what a bind does with the locator: error raised, native connects made
LocBindOf(file, op, params, connectFail) ==
    IF ~BindConnects(op)
    THEN [err |-> "none", conn |-> 0]
    \* OdbcConnection::Connect tests IsValid before the native connect;
    \* ODBCBind and QueryBind throw from the else branch
    ELSE IF ~IsValid(params) THEN [err |-> "configuration", conn |-> 0]
    ELSE IF connectFail THEN [err |-> "connection", conn |-> 1]
    ELSE [err |-> "none",
          conn |-> IF file = "odbc_scanner.cpp" /\ op = "QUERY" THEN 2 ELSE 1]

\* what a call does with the locator
LocCallOf(op, params, fin, connectFail) ==
    IF fin THEN [err |-> "none", conn |-> 0, finished |-> TRUE]
    ELSE IF ~IsValid(params) THEN [err |-> "configuration", conn |-> 0, finished |-> FALSE]
    ELSE IF connectFail THEN [err |-> "connection", conn |-> 1, finished |-> FALSE]
    ELSE [err |-> "none", conn |-> 1, finished |-> op \in {"ATTACH", "EXEC"}]

InitLocator ==
    /\ locFile \in LocFiles
    /\ locEntry \in LocEntries
    /\ locEntry = "EXEC" => locFile = "odbc_scanner.cpp"
    /\ locInputs \in [info : Locators, username : Credentials, password : Credentials]
    /\ locParams = [dsn |-> <<>>, connection_string |-> <<>>]
    /\ locPhase = "unbound" /\ locError = "none"
    /\ locConnects = 0 /\ locCalls = 0 /\ locFinished = FALSE
    /\ CursorIdle /\ ScanIdle /\ ReadIdle /\ AttachIdle /\ TypeIdle /\ CellIdle /\ DescIdle /\ ConnIdle
    /\ FinalIdle

\* the bind of the entry point
LocBind ==
    /\ locPhase = "unbound"
    /\ \E connectFail \in BOOLEAN :
         LET params == ParseLocator(locInputs.info)
             b == LocBindOf(locFile, locEntry, params, connectFail)
         IN  /\ locParams' = params
             /\ locError' = b.err
             /\ locPhase' = IF b.err = "none" THEN "bound" ELSE "bind_error"
             /\ locConnects' = locConnects + b.conn
    /\ UNCHANGED <<locFile, locEntry, locInputs, locCalls, locFinished, othersLoc>>

\* a fetch / execute call of the bound invocation (for Scan and Query the
\* first call stands for the local-state init and the scan it precedes)
LocCall ==
    /\ locPhase = "bound" /\ locCalls < MaxLocCalls
    /\ \E connectFail \in BOOLEAN :
         LET c == LocCallOf(locEntry, locParams,
                            locFinished \/ (BindConnects(locEntry) /\ locCalls > 0),
                            connectFail)
         IN  /\ locError' = c.err
             /\ locPhase' = IF c.err = "none" THEN "bound" ELSE "call_error"
             /\ locConnects' = locConnects + c.conn
             /\ locFinished' = (c.finished /\ ~BindConnects(locEntry))
    /\ locCalls' = locCalls + 1
    /\ UNCHANGED <<locFile, locEntry, locInputs, locParams, othersLoc>>

NextLocator == LocBind \/ LocCall

SpecLocator == InitLocator /\ [][NextLocator]_vars

\* C18: for Scan, Query, Attach and Exec, an invocation without DSN and
\* without connection string ends at its bind with a configuration error:
\* no fetch or execute call is made and no native connect is attempted.
C18_EmptyLocatorFailsAtBind ==
    (locPhase # "unbound" /\ ~IsValid(ParseLocator(locInputs.info))) =>
        /\ locPhase = "bind_error" /\ locError = "configuration"
        /\ locCalls = 0 /\ locConnects = 0

\* =====================================================================
\* SpecDescribe: two bound scans and what ODBCToString says of each
\* =====================================================================
DescTables == {<<"t">>, <<"o">>}
DescLocators == {<<"d">>, <<"e">>, <<"k", "=", "v">>, <<"k", "=", "w">>}
DescUsers == {<<>>, <<"u">>}
DescPasswords == {<<>>, <<"p">>, <<"q">>}
DescInputSet ==
    [table : DescTables, info : DescLocators, username : DescUsers, password : DescPasswords]

\* ODBCBind: table name, then DSN (with credentials) or connection string
ODBCBindDataOf(inputs) ==
    IF HasEquals(inputs.info)
    THEN [table_name |-> inputs.table, dsn |-> <<>>, connection_string |-> inputs.info,
          username |-> <<>>, password |-> <<>>]
    ELSE [table_name |-> inputs.table, dsn |-> inputs.info, connection_string |-> <<>>,
          username |-> inputs.username, password |-> inputs.password]

\* the text "Connection String"
ConnectionPlaceholder ==
    <<"C", "o", "n", "n", "e", "c", "t", "i", "o", "n", " ", "S", "t", "r", "i", "n", "g">>

\* a description that puts the connection string itself on the plan
ODBCToString_ShowsConnection(bind_data) ==
    <<[key |-> "Table", value |-> bind_data.table_name]>> \o
    (IF bind_data.dsn # <<>> THEN <<[key |-> "DSN", value |-> bind_data.dsn]>>
     ELSE IF bind_data.connection_string # <<>>
          THEN <<[key |-> "Connection", value |-> bind_data.connection_string]>>
     ELSE <<>>)

\* ODBCToString
ODBCToString(bind_data) ==
    <<[key |-> "Table", value |-> bind_data.table_name]>> \o
    (IF bind_data.dsn # <<>> THEN <<[key |-> "DSN", value |-> bind_data.dsn]>>
     ELSE IF bind_data.connection_string # <<>>
          THEN <<[key |-> "Connection", value |-> ConnectionPlaceholder]>>
     ELSE <<>>)

NoBindData == [table_name |-> <<>>, dsn |-> <<>>, connection_string |-> <<>>,
               username |-> <<>>, password |-> <<>>]

InitDescribe ==
    /\ descInputs \in [1..2 -> DescInputSet]
    /\ descData = [i \in 1..2 |-> NoBindData]
    /\ descText = [i \in 1..2 |-> <<>>]
    /\ descPc = [i \in 1..2 |-> "unbound"]
    /\ CursorIdle /\ ScanIdle /\ ReadIdle /\ AttachIdle /\ TypeIdle /\ CellIdle /\ LocIdle /\ ConnIdle
    /\ FinalIdle

\* ODBCBind of scan i (the connect it makes may fail)
DescBind(i) ==
    /\ descPc[i] = "unbound"
    /\ \E connectFail \in BOOLEAN :
         /\ descData' = [descData EXCEPT
                           ![i] = IF connectFail THEN @ ELSE ODBCBindDataOf(descInputs[i])]
         /\ descPc' = [descPc EXCEPT ![i] = IF connectFail THEN "failed" ELSE "bound"]
    /\ UNCHANGED <<descInputs, descText, othersDesc>>

\* the host asks for the description of bound scan i
Describe(i) ==
    /\ descPc[i] = "bound"
    /\ descText' = [descText EXCEPT ![i] = ODBCToString(descData[i])]
    /\ descPc' = [descPc EXCEPT ![i] = "described"]
    /\ UNCHANGED <<descInputs, descData, othersDesc>>

NextDescribe == \E i \in 1..2 : DescBind(i) \/ Describe(i)

SpecDescribe == InitDescribe /\ [][NextDescribe]_vars

\* the two scans differ at most in the contents of their connection strings
SameButConnectionString ==
    /\ HasEquals(descInputs[1].info) /\ HasEquals(descInputs[2].info)
    /\ descInputs[1].table = descInputs[2].table
    /\ descInputs[1].username = descInputs[2].username
    /\ descInputs[1].password = descInputs[2].password

\* the two scans differ at most in their passwords
SameButPassword ==
    /\ descInputs[1].table = descInputs[2].table
    /\ descInputs[1].info = descInputs[2].info
    /\ descInputs[1].username = descInputs[2].username

\* table name, then the DSN name or the fixed placeholder
ExpectedDescription(inputs) ==
    <<[key |-> "Table", value |-> inputs.table]>> \o
    (IF HasEquals(inputs.info)
     THEN <<[key |-> "Connection", value |-> ConnectionPlaceholder]>>
     ELSE <<[key |-> "DSN", value |-> inputs.info]>>)

\* C19: two bound scans that differ only in connection-string contents,
\* or only in password, have identical descriptions: the table name and
\* either the DSN name or the fixed placeholder.
C19_DescriptionHidesSecrets ==
    (descPc = [i \in 1..2 |-> "described"] /\ (SameButConnectionString \/ SameButPassword)) =>
        /\ descText[1] = descText[2]
        /\ descText[1] = ExpectedDescription(descInputs[1])

\* two described scans that differ in the contents of their connection
\* strings only
C19_Witness ==
    /\ descPc = [i \in 1..2 |-> "described"]
    /\ SameButConnectionString
    /\ descInputs[1].info # descInputs[2].info
    /\ descText[1] = descText[2]

\* C26: the parameters built from a locator hold at most one of DSN and
\* connection string: the DSN alone when the locator has no '=', the
\* connection string alone when it has one; IsValid() is true exactly when
\* the locator is not empty.
C26_OneOfDsnOrString ==
    locPhase # "unbound"
        => /\ ~(locParams.dsn # <<>> /\ locParams.connection_string # <<>>)
           /\ ~HasEquals(locInputs.info)
                 => (locParams.dsn = locInputs.info /\ locParams.connection_string = <<>>)
           /\ HasEquals(locInputs.info)
                 => (locParams.connection_string = locInputs.info /\ locParams.dsn = <<>>)
           /\ IsValid(locParams) <=> locInputs.info # <<>>

\* a locator with '=' was parsed into the connection string
C26_Witness ==
    /\ locPhase # "unbound" /\ HasEquals(locInputs.info)
    /\ locParams.connection_string = <<"k", "=", "v">> /\ locParams.dsn = <<>>

\* =====================================================================
\* SpecConnect: one call of a connect function
\* =====================================================================
\* statements executed on one handle
MaxStatements == 2
\* wrapper calls made in SpecNative
MaxNativeCalls == 3
\* wrapper objects and native connections in SpecOwner
MaxWrappers == 3
MaxConns == 2
\* execution contexts the host may start in SpecContexts
MaxContexts == 3

Openers == {"OdbcConnection::Connect", "ODBCDB::OpenWithDSN", "NanodbcDB::OpenWithDSN"}
SqlReturns == {"SQL_SUCCESS", "SQL_SUCCESS_WITH_INFO", "SQL_ERROR", "SQL_INVALID_HANDLE"}

\* ret != SQL_SUCCESS && ret != SQL_SUCCESS_WITH_INFO
SqlFailed(rc) == rc \notin {"SQL_SUCCESS", "SQL_SUCCESS_WITH_INFO"}

Raised == [out |-> "raised", handle |-> [open |-> FALSE, read_only |-> FALSE], warnings |-> 0]

\* a connect function that treats a refused access mode as a connect error
OpenOf_StrictReadOnly(who, params, nat) ==
    IF who = "OdbcConnection::Connect" /\ params.info = <<>> THEN Raised
    ELSE IF SqlFailed(nat.setup) \/ SqlFailed(nat.connect) THEN Raised
    ELSE IF params.read_only /\ SqlFailed(nat.access_mode) THEN Raised
    ELSE [out |-> "open", handle |-> [open |-> TRUE, read_only |-> params.read_only],
          warnings |-> 0]

\* the three connect functions: outcome, handle and warnings written
OpenOf(who, params, nat) ==
    IF who = "ODBCDB::OpenWithDSN"
    THEN \* handles are allocated, the timeout and the access mode are set,
         \* then SQLConnect; the two attribute calls only warn
         IF SqlFailed(nat.setup) \/ SqlFailed(nat.connect) THEN Raised
         ELSE [out |-> "open",
               handle |-> [open |-> TRUE,
                           read_only |-> params.read_only /\ ~SqlFailed(nat.access_mode)],
               warnings |-> (IF SqlFailed(nat.timeout) THEN 1 ELSE 0) +
                            (IF params.read_only /\ SqlFailed(nat.access_mode) THEN 1 ELSE 0)]
    ELSE \* nanodbc connects first; the return value of SQLSetConnectAttr is
         \* dropped
         IF who = "OdbcConnection::Connect" /\ params.info = <<>> THEN Raised
         ELSE IF SqlFailed(nat.connect) THEN Raised
         ELSE [out |-> "open",
               handle |-> [open |-> TRUE,
                           read_only |-> params.read_only /\ ~SqlFailed(nat.access_mode)],
               warnings |-> 0]

InitConnect ==
    /\ opener \in Openers
    /\ connParams \in [info : Locators, read_only : BOOLEAN]
    /\ opener # "OdbcConnection::Connect" => connParams.info = <<"d">>
    /\ native \in [setup : {"SQL_SUCCESS", "SQL_ERROR"}, timeout : {"SQL_SUCCESS", "SQL_ERROR"},
                    access_mode : SqlReturns, connect : {"SQL_SUCCESS", "SQL_ERROR"}]
    /\ opener # "ODBCDB::OpenWithDSN"
          => (native.setup = "SQL_SUCCESS" /\ native.timeout = "SQL_SUCCESS")
    /\ handle = [open |-> FALSE, read_only |-> FALSE]
    /\ connOut = "none" /\ connWarnings = 0 /\ nStatements = 0
    /\ CursorIdle /\ ScanIdle /\ ReadIdle /\ AttachIdle /\ TypeIdle
    /\ CellIdle /\ LocIdle /\ DescIdle /\ FinalIdle

\* the connect function is called
Open ==
    /\ connOut = "none"
    /\ LET r == OpenOf(opener, connParams, native)
       IN  /\ connOut' = r.out
           /\ handle' = r.handle
           /\ connWarnings' = r.warnings
    /\ UNCHANGED <<opener, connParams, native, nStatements, othersConn>>

\* a statement is executed on the handle the call returned
UseHandle ==
    /\ connOut = "open" /\ handle.open /\ nStatements < MaxStatements
    /\ nStatements' = nStatements + 1
    /\ UNCHANGED <<opener, connParams, native, handle, connOut, connWarnings, othersConn>>

NextConnect == Open \/ UseHandle

SpecConnect == InitConnect /\ [][NextConnect]_vars

\* read-only is requested, the driver refuses the access mode, and nothing
\* else stands in the way of the connect
ReadOnlyRefused ==
    /\ connParams.read_only /\ SqlFailed(native.access_mode)
    /\ connParams.info # <<>>
    /\ ~SqlFailed(native.setup) /\ ~SqlFailed(native.connect)

\* C20: when read-only is requested and setting the native access mode
\* fails, the connect still returns an open handle; the failure is never
\* raised.
C20_ReadOnlyAdvisory ==
    (connOut # "none" /\ ReadOnlyRefused) => (connOut = "open" /\ handle.open)

\* a handle opened although the access mode was refused, and used
C20_Witness ==
    /\ ReadOnlyRefused /\ connOut = "open" /\ handle.open /\ ~handle.read_only
    /\ nStatements > 0

\* =====================================================================
\* SpecNative: the native operations a wrapper call issues
\* =====================================================================
Preparers == {"NanodbcDB::Prepare", "ODBCDB::Prepare", "OdbcConnection::Prepare"}
Executors == {"NanodbcDB::Execute", "ODBCDB::Execute", "OdbcConnection::Execute"}

\* one native operation issued, and whether the driver failed it
Issue(op, failed) == [op |-> op, failed |-> failed]

\* result of a call: "ok", "false" or "raised", and the operations issued
Outcome(val, issued) == [val |-> val, issued |-> issued]

\* nanodbc::statement(conn, query) cannot succeed on a closed connection
NativePrepareFails(open, f) == ~open \/ f

\* a statement constructor that lets the nanodbc error through as it is
NanodbcStatementCtor_Unwrapped(open, f) ==
    [issued |-> <<Issue("prepare", NativePrepareFails(open, f))>>,
     thrown |-> IF NativePrepareFails(open, f) THEN "database_error" ELSE "none"]

\* NanodbcStatement(conn, query) and OdbcStatement(conn, query): the native
\* prepare; a nanodbc::database_error is rethrown as std::runtime_error
NanodbcStatementCtor(open, f) ==
    [issued |-> <<Issue("prepare", NativePrepareFails(open, f))>>,
     thrown |-> IF NativePrepareFails(open, f) THEN "runtime_error" ELSE "none"]

\* catches nanodbc::database_error only; anything else leaves the function
NanodbcDB_TryPrepare(open, f) ==
    IF ~open THEN Outcome("false", <<>>)
    ELSE LET k == NanodbcStatementCtor(open, f)
         IN  CASE k.thrown = "none" -> Outcome("true", k.issued)
               [] k.thrown = "database_error" -> Outcome("false", k.issued)
               [] OTHER -> Outcome("raised", k.issued)

\* constructs the statement a second time when TryPrepare returned false
NanodbcDB_Prepare(open, f1, f2) ==
    LET t == NanodbcDB_TryPrepare(open, f1)
    IN  IF t.val = "raised" THEN Outcome("raised", t.issued)
        ELSE IF t.val = "true" THEN Outcome("ok", t.issued)
        ELSE LET k == NanodbcStatementCtor(open, f2)
             IN  Outcome(IF k.thrown = "none" THEN "ok" ELSE "raised",
                         t.issued \o k.issued)

\* SQLAllocHandle, then SQLPrepare; false on either failure
ODBCDB_TryPrepare(open, allocFails, f) ==
    IF ~open THEN Outcome("false", <<>>)
    ELSE IF allocFails THEN Outcome("false", <<>>)
    ELSE IF f THEN Outcome("false", <<Issue("prepare", TRUE)>>)
    ELSE Outcome("true", <<Issue("prepare", FALSE)>>)

ODBCDB_Prepare(open, allocFails, f) ==
    LET t == ODBCDB_TryPrepare(open, allocFails, f)
    IN  Outcome(IF t.val = "true" THEN "ok" ELSE "raised", t.issued)

OdbcConnection_Prepare(open, f) ==
    IF ~open THEN Outcome("raised", <<>>)
    ELSE LET k == NanodbcStatementCtor(open, f)
         IN  Outcome(IF k.thrown = "none" THEN "ok" ELSE "raised", k.issued)

PrepareOf(who, open, allocFails, f1, f2) ==
    CASE who = "NanodbcDB::Prepare" -> NanodbcDB_Prepare(open, f1, f2)
      [] who = "ODBCDB::Prepare" -> ODBCDB_Prepare(open, allocFails, f1)
      [] who = "OdbcConnection::Prepare" -> OdbcConnection_Prepare(open, f1)

\* nanodbc::just_execute, or Prepare followed by SQLExecute in the raw wrapper
ExecuteOf(who, open, allocFails, f1, execFails) ==
    IF who = "ODBCDB::Execute"
    THEN LET q == ODBCDB_Prepare(open, allocFails, f1)
         IN  IF q.val = "raised" THEN q
             ELSE Outcome(IF execFails THEN "raised" ELSE "ok",
                          q.issued \o <<Issue("execute", execFails)>>)
    ELSE Outcome(IF ~open \/ execFails THEN "raised" ELSE "ok",
                 <<Issue("execute", ~open \/ execFails)>>)

\* the connect functions: one native connect, after the parameter test
\* (OdbcConnection::Connect) or the handle setup (ODBCDB::OpenWithDSN)
ConnectOf(who, valid, setupFails, f) ==
    IF who = "OdbcConnection::Connect" /\ ~valid THEN Outcome("raised", <<>>)
    ELSE IF who = "ODBCDB::OpenWithDSN" /\ setupFails THEN Outcome("raised", <<>>)
    ELSE Outcome(IF f THEN "raised" ELSE "ok", <<Issue("connect", f)>>)

\* the native operations of one Step(): the execute where StepOf executes,
\* the fetch where StepOf fetches
StepIssued(v, c, len, fail) ==
    LET exec == <<Issue("execute", ~NativeExecuteOk(v, c, len, fail))>>
        fetch == <<Issue("fetch", fail = "fetch")>>
    IN  IF v = "ODBCStatement"
        THEN IF ~c.conn \/ ~c.hstmt THEN <<>>
             ELSE IF ~NativeExecuteOk(v, c, len, fail) THEN exec
             ELSE exec \o fetch
        ELSE IF ~IsOpen(v, c) THEN <<>>
             ELSE IF c.executed THEN fetch
             ELSE IF ~NativeExecuteOk(v, c, len, fail) THEN exec
             ELSE IF v = "NanodbcStatement" THEN exec
             ELSE exec \o fetch

InitNative ==
    /\ natWho = "none"
    /\ natVariant \in Variants
    /\ natRows \in 0..1
    /\ natCur = PreparedStatement
    /\ natTrace = <<>> /\ natOut = "none" /\ natCalls = 0
    /\ CursorIdle /\ ScanIdle /\ ReadIdle /\ AttachIdle /\ TypeIdle
    /\ CellIdle /\ LocIdle /\ DescIdle /\ ConnIdle
    /\ OwnIdle /\ CtxIdle /\ ViewIdle

NatPrepare ==
    /\ natCalls < MaxNativeCalls
    /\ \E who \in Preparers, open, allocFails, f1, f2 \in BOOLEAN :
         LET r == PrepareOf(who, open, allocFails, f1, f2)
         IN  /\ natWho' = who
             /\ natTrace' = r.issued
             /\ natOut' = r.val
    /\ natCalls' = natCalls + 1
    /\ UNCHANGED <<natVariant, natRows, natCur, othersNat>>

NatExecute ==
    /\ natCalls < MaxNativeCalls
    /\ \E who \in Executors, open, allocFails, f1, execFails \in BOOLEAN :
         LET r == ExecuteOf(who, open, allocFails, f1, execFails)
         IN  /\ natWho' = who
             /\ natTrace' = r.issued
             /\ natOut' = r.val
    /\ natCalls' = natCalls + 1
    /\ UNCHANGED <<natVariant, natRows, natCur, othersNat>>

NatConnect ==
    /\ natCalls < MaxNativeCalls
    /\ \E who \in Openers, valid, setupFails, f \in BOOLEAN :
         LET r == ConnectOf(who, valid, setupFails, f)
         IN  /\ natWho' = who
             /\ natTrace' = r.issued
             /\ natOut' = r.val
    /\ natCalls' = natCalls + 1
    /\ UNCHANGED <<natVariant, natRows, natCur, othersNat>>

\* Step() on the cursor; SQLExecute on an open cursor is the driver's choice
NatStep ==
    /\ natCalls < MaxNativeCalls
    /\ \E fail \in Fails, len \in BOOLEAN :
         LET r == StepOf(natVariant, natCur, natRows, len, fail)
         IN  /\ natWho' = "Step"
             /\ natTrace' = StepIssued(natVariant, natCur, len, fail)
             /\ natOut' = IF r.val = "error" THEN "raised" ELSE "ok"
             /\ natCur' = r.c
    /\ natCalls' = natCalls + 1
    /\ UNCHANGED <<natVariant, natRows, othersNat>>

NextNative == NatPrepare \/ NatExecute \/ NatConnect \/ NatStep

SpecNative == InitNative /\ [][NextNative]_vars

WrapperClasses == {"ODBCDB", "NanodbcDB"}
Slots == 1..MaxWrappers
Conns == 1..MaxConns

NoWrapper == [alive |-> FALSE, hdbc |-> 0, owner |-> FALSE]

\* ODBCDB() / NanodbcDB(): no connection, owner(false)
DefaultWrapper == [alive |-> TRUE, hdbc |-> 0, owner |-> FALSE]

\* ODBCDB(henv, hdbc) / db.owner = true at the end of OpenWithDSN
OwningWrapper(c) == [alive |-> TRUE, hdbc |-> c, owner |-> TRUE]

\* a move that leaves the source wrapper as it was
MovedFrom_KeepsOwner(o) == o

\* other.hdbc = nullptr (conn moved out); other.owner = false
MovedFrom(o) == [o EXCEPT !.hdbc = 0, !.owner = FALSE]

\* Close(): what it leaves of the wrapper, and the connection it disconnects
\* (0 = none).  ODBCDB tests and clears hdbc; NanodbcDB asks conn.connected()
\* and keeps the disconnected conn.
ODBCDB_CloseOf(w) ==
    IF ~w.owner THEN [w |-> w, disc |-> 0]
    ELSE [w |-> [w EXCEPT !.hdbc = 0, !.owner = FALSE], disc |-> w.hdbc]

NanodbcDB_CloseOf(w, live) ==
    IF ~w.owner THEN [w |-> w, disc |-> 0]
    ELSE [w |-> [w EXCEPT !.owner = FALSE],
          disc |-> IF w.hdbc # 0 /\ live[w.hdbc] THEN w.hdbc ELSE 0]

WrapperCloseOf(class, w, live) ==
    IF class = "ODBCDB" THEN ODBCDB_CloseOf(w) ELSE NanodbcDB_CloseOf(w, live)

\* the member nanodbc::connection is destroyed after the destructor body:
\* its implementation disconnects when it is still connected
ConnDtorDisconnects(class, w, live) ==
    IF class = "NanodbcDB" /\ w.hdbc # 0 /\ live[w.hdbc] THEN w.hdbc ELSE 0

\* connection c disconnected (0: nothing happens)
Disconnected(live, c) == IF c = 0 THEN live ELSE [live EXCEPT ![c] = FALSE]
Counted(cnt, c) == IF c = 0 THEN cnt ELSE [cnt EXCEPT ![c] = cnt[c] + 1]

InitOwner ==
    /\ ownClass \in WrapperClasses
    /\ wrappers = [i \in Slots |-> NoWrapper]
    /\ connected = [c \in Conns |-> FALSE]
    /\ nDisc = [c \in Conns |-> 0]
    /\ nOpened = 0 /\ strayDisc = FALSE
    /\ CursorIdle /\ ScanIdle /\ ReadIdle /\ AttachIdle /\ TypeIdle
    /\ CellIdle /\ LocIdle /\ DescIdle /\ ConnIdle
    /\ NatIdle /\ CtxIdle /\ ViewIdle

\* a default-constructed wrapper
Construct ==
    \E i \in Slots :
        /\ ~wrappers[i].alive
        /\ wrappers' = [wrappers EXCEPT ![i] = DefaultWrapper]
        /\ UNCHANGED <<ownClass, connected, nDisc, nOpened, strayDisc, othersOwn>>

\* OpenWithDSN / OpenWithConnectionString returns an owning wrapper
OpenWrapper ==
    \E i \in Slots :
        /\ ~wrappers[i].alive /\ nOpened < MaxConns
        /\ nOpened' = nOpened + 1
        /\ wrappers' = [wrappers EXCEPT ![i] = OwningWrapper(nOpened + 1)]
        /\ connected' = [connected EXCEPT ![nOpened + 1] = TRUE]
        /\ UNCHANGED <<ownClass, nDisc, strayDisc, othersOwn>>

MoveConstruct ==
    \E i, o \in Slots :
        /\ i # o /\ ~wrappers[i].alive /\ wrappers[o].alive
        /\ wrappers' = [wrappers EXCEPT ![i] = wrappers[o],
                                        ![o] = MovedFrom(wrappers[o])]
        /\ UNCHANGED <<ownClass, connected, nDisc, nOpened, strayDisc, othersOwn>>

\* operator=(&&): nothing on self-assignment, else Close() and take over
MoveAssign ==
    \E i, o \in Slots :
        /\ wrappers[i].alive /\ wrappers[o].alive
        /\ IF i = o
           THEN UNCHANGED <<wrappers, connected, nDisc, strayDisc>>
           ELSE LET r == WrapperCloseOf(ownClass, wrappers[i], connected)
                    \* the conn the target held is released by the assignment
                    d == ConnDtorDisconnects(ownClass, r.w, Disconnected(connected, r.disc))
                IN  /\ wrappers' = [wrappers EXCEPT ![i] = wrappers[o],
                                                    ![o] = MovedFrom(wrappers[o])]
                    /\ connected' = Disconnected(Disconnected(connected, r.disc), d)
                    /\ nDisc' = Counted(Counted(nDisc, r.disc), d)
                    /\ strayDisc' = (strayDisc \/ d # 0)
        /\ UNCHANGED <<ownClass, nOpened, othersOwn>>

CloseWrapper ==
    \E i \in Slots :
        /\ wrappers[i].alive
        /\ LET r == WrapperCloseOf(ownClass, wrappers[i], connected)
           IN  /\ wrappers' = [wrappers EXCEPT ![i] = r.w]
               /\ connected' = Disconnected(connected, r.disc)
               /\ nDisc' = Counted(nDisc, r.disc)
        /\ UNCHANGED <<ownClass, nOpened, strayDisc, othersOwn>>

\* the destructor: Close(), then the members are destroyed
Destroy ==
    \E i \in Slots :
        /\ wrappers[i].alive
        /\ LET r == WrapperCloseOf(ownClass, wrappers[i], connected)
               d == ConnDtorDisconnects(ownClass, r.w, Disconnected(connected, r.disc))
           IN  /\ wrappers' = [wrappers EXCEPT ![i] = NoWrapper]
               /\ connected' = Disconnected(Disconnected(connected, r.disc), d)
               /\ nDisc' = Counted(Counted(nDisc, r.disc), d)
               /\ strayDisc' = (strayDisc \/ d # 0)
        /\ UNCHANGED <<ownClass, nOpened, othersOwn>>

NextOwner ==
    Construct \/ OpenWrapper \/ MoveConstruct \/ MoveAssign \/ CloseWrapper \/ Destroy

SpecOwner == InitOwner /\ [][NextOwner]_vars

\* the wrappers that own connection c
OwnersOf(c) == {i \in Slots : wrappers[i].alive /\ wrappers[i].owner /\ wrappers[i].hdbc = c}

\* C23: after any sequence of construct, move-construct, move-assign, Close
\* and destroy, each native connection has at most one owning wrapper, is
\* disconnected exactly once, when its owner is closed, overwritten or
\* destroyed, and is never disconnected by a wrapper that does not own it.
C23_SingleOwner ==
    /\ ~strayDisc
    /\ \A c \in Conns :
        /\ Cardinality(OwnersOf(c)) <= 1
        /\ nDisc[c] <= 1
        /\ c <= nOpened => (nDisc[c] = 1 <=> OwnersOf(c) = {})
        /\ c <= nOpened => (connected[c] <=> OwnersOf(c) # {})

\* a connection has moved to a second wrapper and was disconnected there,
\* while the wrapper that opened it is still alive
C23_Witness ==
    \E i, o \in Slots :
        /\ i # o /\ wrappers[i].alive /\ wrappers[o].alive
        /\ nOpened >= 1 /\ nDisc[1] = 1 /\ ~connected[1]
        /\ wrappers[o] = [alive |-> TRUE, hdbc |-> 0, owner |-> FALSE]
        /\ ~wrappers[i].owner

\* =====================================================================
\* SpecContexts: the host creates the global state, then local states
\* =====================================================================
Contexts == 1..MaxContexts

NoContext == [pc |-> "idle", db |-> 0, stmt |-> 0, owned |-> FALSE]

\* a global state that allows as many threads as there are contexts
InitGlobalState_Wide(sc) == [max_threads |-> MaxContexts]

\* InitOdbcGlobalState / ODBCInitGlobalState: OdbcGlobalScanState(1)
InitGlobalState(sc) == [max_threads |-> 1]

\* the local state one context gets: ODBCInitLocalState takes
\* bind_data.global_db when set and opens owned_db otherwise;
\* InitOdbcLocalState always connects, and prepares no statement on the
\* "Success" path
InitLocalStateOf(sc, shared, success, connectFails, prepareFails, handles, stmts) ==
    IF sc = "ODBCScan" /\ shared
    THEN IF prepareFails THEN [pc |-> "failed", db |-> 1, stmt |-> 0, owned |-> FALSE]
         ELSE [pc |-> "ready", db |-> 1, stmt |-> stmts + 1, owned |-> FALSE]
    ELSE IF connectFails THEN [pc |-> "failed", db |-> 0, stmt |-> 0, owned |-> FALSE]
    ELSE IF sc = "ScanOdbcSource" /\ success
    THEN [pc |-> "ready", db |-> handles + 1, stmt |-> 0, owned |-> TRUE]
    ELSE IF prepareFails
    THEN [pc |-> "failed", db |-> handles + 1, stmt |-> 0, owned |-> TRUE]
    ELSE [pc |-> "ready", db |-> handles + 1, stmt |-> stmts + 1, owned |-> TRUE]

\* contexts the host is running
Running == {i \in Contexts : ctxs[i].pc \in {"ready", "busy"}}

InitContexts ==
    /\ ctxScanner \in Scanners
    /\ global_db \in BOOLEAN
    /\ ctxScanner = "ScanOdbcSource" => ~global_db
    /\ successBind \in BOOLEAN
    /\ ctxScanner = "ODBCScan" => ~successBind
    /\ gstate = [max_threads |-> 0]
    /\ ctxs = [i \in Contexts |-> NoContext]
    /\ nHandles = IF global_db THEN 1 ELSE 0
    /\ nPrepared = 0
    /\ CursorIdle /\ ScanIdle /\ ReadIdle /\ AttachIdle /\ TypeIdle
    /\ CellIdle /\ LocIdle /\ DescIdle /\ ConnIdle
    /\ NatIdle /\ OwnIdle /\ ViewIdle

InitGlobal ==
    /\ gstate.max_threads = 0
    /\ gstate' = InitGlobalState(ctxScanner)
    /\ UNCHANGED <<ctxScanner, global_db, successBind, ctxs, nHandles, nPrepared, othersCtx>>

\* the host starts a context while fewer than MaxThreads() are running
InitLocalCtx(i) ==
    /\ ctxs[i].pc = "idle"
    /\ Cardinality(Running) < gstate.max_threads
    /\ \E connectFails, prepareFails \in BOOLEAN :
         LET l == InitLocalStateOf(ctxScanner, global_db, successBind, connectFails,
                                   prepareFails, nHandles, nPrepared)
         IN  /\ ctxs' = [ctxs EXCEPT ![i] = l]
             /\ nHandles' = IF l.owned THEN nHandles + 1 ELSE nHandles
             /\ nPrepared' = IF l.stmt # 0 THEN nPrepared + 1 ELSE nPrepared
    /\ UNCHANGED <<ctxScanner, global_db, successBind, gstate, othersCtx>>

\* the scan function of a context enters a native call on its handle
BeginNative(i) ==
    /\ ctxs[i].pc = "ready"
    /\ ctxs' = [ctxs EXCEPT ![i].pc = "busy"]
    /\ UNCHANGED <<ctxScanner, global_db, successBind, gstate, nHandles, nPrepared, othersCtx>>

\* the native call returns; the scan goes on or is done
EndNative(i) ==
    /\ ctxs[i].pc = "busy"
    /\ \E last \in BOOLEAN :
         ctxs' = [ctxs EXCEPT ![i].pc = IF last THEN "done" ELSE "ready"]
    /\ UNCHANGED <<ctxScanner, global_db, successBind, gstate, nHandles, nPrepared, othersCtx>>

NextContexts ==
    \/ InitGlobal
    \/ \E i \in Contexts : InitLocalCtx(i)
    \/ \E i \in Contexts : BeginNative(i)
    \/ \E i \in Contexts : EndNative(i)

SpecContexts == InitContexts /\ [][NextContexts]_vars

SysViewLists == {<<>>, << <<"s">> >>, << <<"s">>, <<"y">> >>}

\* catalog.find_tables(...) and the while (results.next()) loop: the names
\* pushed before the probe throws, all of them when it does not
Pushed(names, failAfter) ==
    IF failAfter < 0 THEN names ELSE SubSeq(names, 1, failAfter)

ProbeThrows(failAfter) == failAfter >= 0

\* a view listing that gives up its rows when the "VIEW" probe throws
GetViewsOf_AllOrNothing(vnames, snames, vFail, sFail) ==
    IF ProbeThrows(vFail) THEN <<>>
    ELSE vnames \o Pushed(snames, sFail)

\* OdbcConnection::GetViews: the outer catch ends the function at a failing
\* "VIEW" probe, the inner catch (...) ends the "SYSTEM VIEW" loop; in both
\* cases the names pushed so far are returned
GetViewsOf(vnames, snames, vFail, sFail) ==
    IF ProbeThrows(vFail) THEN Pushed(vnames, vFail)
    ELSE vnames \o Pushed(snames, sFail)

InitViews ==
    /\ attacher = "AttachOdbcDatabase"
    /\ remoteTables \in TableLists
    /\ remoteViews = <<>>
    /\ attachInputs \in [info : Locators \ {<<>>}, overwrite : {FALSE}]
    /\ attach_data = AttachBindData(attachInputs)
    /\ hostViews = {}
    /\ attachOut = [card |-> 0, data |-> <<>>]
    /\ attachPhase = "ready" /\ nAttach = 0 /\ nCreateView = 0 /\ attachConnects = 0
    /\ catalogViews \in ViewLists
    /\ catalogSysViews \in SysViewLists
    /\ viewFailAfter \in -1..Len(catalogViews)
    /\ sysFailAfter \in -1..Len(catalogSysViews)
    /\ gotViews = <<>>
    /\ CursorIdle /\ ScanIdle /\ ReadIdle /\ TypeIdle
    /\ CellIdle /\ LocIdle /\ DescIdle /\ ConnIdle
    /\ NatIdle /\ OwnIdle /\ CtxIdle

\* one call of AttachOdbcDatabase, GetViews included
AttachCatalog ==
    /\ attachPhase = "ready"
    /\ nAttach < MaxAttach
    /\ nAttach' = nAttach + 1
    /\ \E connectFail \in BOOLEAN :
         LET asked == ~attach_data.finished /\ ~connectFail
             views == IF asked
                      THEN GetViewsOf(catalogViews, catalogSysViews, viewFailAfter,
                                      sysFailAfter)
                      ELSE gotViews
             a == AttachCallWith(attacher, attach_data, hostViews, connectFail,
                                 remoteTables, views)
         IN  /\ gotViews' = views
             /\ remoteViews' = views
             /\ hostViews' = a.views
             /\ nCreateView' = nCreateView + a.n
             /\ attachConnects' = attachConnects + a.conn
             /\ attach_data' = [attach_data EXCEPT !.finished = a.finished]
             /\ IF a.err
                THEN attachPhase' = "failed" /\ UNCHANGED attachOut
                ELSE attachOut' = a.out /\ UNCHANGED attachPhase
    /\ UNCHANGED <<attacher, remoteTables, attachInputs, catalogViews, catalogSysViews,
                   viewFailAfter, sysFailAfter, othersView>>

NextViews == AttachCatalog

SpecViews == InitViews /\ [][NextViews]_vars

\* an attach call was made and every call so far got its connection
ViewsAsked == nAttach > 0 /\ attachPhase # "failed"

\* C25 as stated: GetViews never lets a catalog failure out; when the "VIEW"
\* probe fails it returns an empty list, when only the "SYSTEM VIEW" probe
\* fails it returns exactly the views of the "VIEW" probe, and Attach goes on
\* to its success row.
C25_EmptyOnViewFailure ==
    /\ attachPhase = "failed" => nCreateView = 0
    /\ ViewsAsked
        => /\ attach_data.finished
           /\ attachOut.card \in {0, 1} /\ (nAttach = 1 => attachOut.card = 1)
           /\ ProbeThrows(viewFailAfter) => gotViews = <<>>
           /\ (~ProbeThrows(viewFailAfter) /\ ProbeThrows(sysFailAfter))
                 => gotViews = catalogViews

\* C25, amended: GetViews never lets a catalog failure out and Attach goes on
\* to its success row; a failing probe ends the listing, and the names the
\* probes delivered before the failure are returned: those of the "VIEW"
\* probe alone when it fails, all of the "VIEW" probe followed by those the
\* "SYSTEM VIEW" probe delivered when only that one fails.
C25_PartialOnFailure ==
    /\ attachPhase = "failed" => nCreateView = 0
    /\ ViewsAsked
        => /\ attach_data.finished
           /\ attachOut.card \in {0, 1} /\ (nAttach = 1 => attachOut.card = 1)
           /\ ProbeThrows(viewFailAfter)
                 => gotViews = SubSeq(catalogViews, 1, viewFailAfter)
           /\ (~ProbeThrows(viewFailAfter) /\ ProbeThrows(sysFailAfter))
                 => gotViews = catalogViews \o SubSeq(catalogSysViews, 1, sysFailAfter)
           /\ \A i \in 1..Len(gotViews) :
                 \E v \in hostViews : v.name = gotViews[i] /\ v.fn = "odbc_query"

\* the "VIEW" probe failed after its first row and the attach succeeded
C25_Witness ==
    /\ attach_data.finished /\ nAttach = 1 /\ attachOut.card = 1
    /\ viewFailAfter = 1 /\ Len(catalogViews) = 2
    /\ gotViews = << <<"v">> >>

\* =====================================================================
\* SpecFinish: the two kinds of invocation that keep a finished flag,
\* an Exec (ExecuteOdbcStatement) or an Attach, from bind to the calls
\* =====================================================================
InitFinish ==
    \/ InitScan /\ entry = "EXEC"
    \/ InitAttach

\* bind and calls of an Exec
ExecStep == entry = "EXEC" /\ (Bind \/ ExecuteOdbcStatement)

\* bind and calls of an Attach
AttachStep == attacher \in Attachers /\ (AttachBind \/ Attach)

NextFinish == ExecStep \/ AttachStep

SpecFinish == InitFinish /\ [][NextFinish]_vars

\* C29: a call of Exec or Attach in which the connect, the execution or any
\* other step fails emits no success row and leaves finished false; finished
\* becomes true only in a call that ran to its end, and the success row is
\* emitted in that call and in no other.
C29_FinishedOnlyOnSuccess ==
    [][/\ (entry = "EXEC" /\ nFetch' = nFetch + 1)
             => /\ phase' = "failed" => (~finished' /\ out' = out)
                /\ (finished' /\ ~finished) <=> (phase' = "ready" /\ out'.card = 1)
                /\ finished => (finished' /\ out'.card = 0)
       /\ (attacher \in Attachers /\ nAttach' = nAttach + 1)
             => /\ attachPhase' = "failed"
                      => (~attach_data'.finished /\ attachOut' = attachOut)
                /\ (attach_data'.finished /\ ~attach_data.finished)
                      <=> (attachPhase' = "ready" /\ attachOut'.card = 1)
                /\ attach_data.finished
                      => (attach_data'.finished /\ attachOut'.card = 0)]_vars

\* an Attach call with a valid locator has failed: the flag is still false
\* and no row was handed back
C29_Witness ==
    /\ attacher = "AttachOdbcDatabase" /\ attachPhase = "failed" /\ nAttach = 1
    /\ IsValid(attach_data) /\ attachConnects = 1
    /\ ~attach_data.finished /\ attachOut.card = 0

====
